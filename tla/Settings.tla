------------------------------ MODULE Settings ------------------------------
(***************************************************************************)
(* The settings: config.ini, the resources that Config makes of it, the    *)
(* page that shows them and the form that sends them back.  A text is a    *)
(* sequence of characters; "cfg:" and the words behind a ? are one.        *)
(***************************************************************************)
EXTENDS Naturals, Sequences, SequencesExt, TLC

CONSTANTS Template,   \* the lines of config-example.txt
          Fields,     \* the fields of the settings page, in their order
          Typed,      \* what the user may type into a text field
          Kind,       \* for each setting: "nitro", "data" or "plain"
          Alphabet,   \* the characters of names, in their order
          MaxPosts, MaxCuts

VARIABLES phase,       \* the console is "off" or "on", shows the "page" or is "writing"
          file,        \* config.ini: whether it exists, and its lines
          writing,     \* the lines that are being written
          resources,   \* m_resources
          form,        \* the values in the open page
          asked,       \* what the user wants each setting to be
          lost,        \* the settings that were given a value that is not kept
          cutShort,    \* the power went while config.ini was written
          posts, cuts  \* how often the form was sent, and a file cut

vars == <<phase, file, writing, resources, form, asked, lost, cutShort, posts, cuts>>

CR == "CR"
LF == "LF"
Nitro == "nitro:"      \* NITRODIR
Data  == "/data/"      \* DATADIR
Blank == {" ", CR, LF}
Slash == {"/", Data}   \* characters that begin an absolute path
Names == DOMAIN Kind

----------------------------------------------------------------------------
(* ParameterSet                                                            *)

Begin == [state |-> "BEFORE_NAME", name |-> <<>>, value |-> <<>>, map |-> <<>>]

AddCurrentParam(p) ==
  [Begin EXCEPT !.map = IF p.name = <<>> THEN p.map ELSE (p.name :> p.value) @@ p.map]

Name(p, c)  == [p EXCEPT !.name = Append(@, c), !.state = "IN_NAME"]
Value(p, c) == [p EXCEPT !.value = Append(@, c)]
To(p, state) == [p EXCEPT !.state = state]

BeforeName(p, c, sep) == IF c = sep \/ c \in Blank THEN p ELSE Name(p, c)

InName(p, c, sep) ==
  CASE c = "=" -> To(p, "BEFORE_VALUE")
    [] c = sep -> AddCurrentParam(p)
    [] c \in Blank -> To(p, "AFTER_NAME")
    [] OTHER -> Name(p, c)

AfterName(p, c, sep) ==
  CASE c = "=" -> To(p, "BEFORE_VALUE") [] c = sep -> AddCurrentParam(p) [] OTHER -> p

\* The separator is a value like any other here.
BeforeValue(p, c, sep) ==
  CASE c \in Blank -> p
    [] c = "\"" -> To(p, "VALUE_DOUBLE_QUOTE")
    [] c = "'" -> To(p, "VALUE_SINGLE_QUOTE")
    [] OTHER -> To(Value(p, c), "VALUE_UNQUOTED")

Quotes == [VALUE_DOUBLE_QUOTE |-> "\"", VALUE_SINGLE_QUOTE |-> "'", VALUE_UNQUOTED |-> "none"]

InValue(p, c, sep) ==
  IF c = sep \/ c = Quotes[p.state] THEN AddCurrentParam(p) ELSE Value(p, c)

HandleState(p, c, sep) ==
  CASE p.state = "BEFORE_NAME" -> BeforeName(p, c, sep)
    [] p.state = "IN_NAME" -> InName(p, c, sep)
    [] p.state = "AFTER_NAME" -> AfterName(p, c, sep)
    [] p.state = "BEFORE_VALUE" -> BeforeValue(p, c, sep)
    [] OTHER -> InValue(p, c, sep)

\* The last character is left to cleanup, which handles it only in a parameter.
Cleanup(p, last, sep) == AddCurrentParam(IF p.name = <<>> THEN p ELSE HandleState(p, last, sep))

DoParse(text, sep) ==
  LET line == SelectInSeq(Front(text), LAMBDA c : c \in {CR, LF})
      parse(chars) == FoldLeft(LAMBDA p, c : HandleState(p, c, sep), Begin, chars)
  IN IF line > 0 THEN AddCurrentParam(parse(SubSeq(text, 1, line - 1)))
     ELSE Cleanup(parse(Front(text)), Last(text), sep)

\* A function from names to values.
ParameterSet(text, sep) == IF text = <<>> THEN <<>> ELSE DoParse(text, sep).map

----------------------------------------------------------------------------
(* Files of lines                                                          *)

\* readlines: what is behind the last line end is a line if there is any.
ReadLines(text) ==
  LET add(f, c) == IF c = LF THEN [lines |-> Append(f.lines, f.line), line |-> <<>>]
                   ELSE [f EXCEPT !.line = Append(@, c)]
      read(f) == IF f.line = <<>> THEN f.lines ELSE Append(f.lines, f.line)
  IN read(FoldLeft(add, [lines |-> <<>>, line |-> <<>>], text))

\* What postConfiguration writes.
Written(lines) == FlattenSeq([i \in DOMAIN lines |-> Append(lines[i], LF)])

StripWhitespace(line) ==
  LET kept == SelectInSeq(line, LAMBDA c : c \notin Blank)
  IN IF kept = 0 THEN line
     ELSE SubSeq(line, kept, SelectLastInSeq(line, LAMBDA c : c \notin Blank))

Meant(line) == line # <<>> /\ line[1] # "#"

\* FileParser::parseFile, which calls parseLine for each line that is meant.
ParseFile(map, lines) ==
  LET parse(m, line) == IF Meant(line) THEN ParameterSet(line, ";") @@ m ELSE m
  IN FoldLeft(LAMBDA m, line : parse(m, StripWhitespace(line)), map, lines)

----------------------------------------------------------------------------
(* Config                                                                  *)

ConfigPathMember(value) == IF value # <<>> /\ value[1] \in Slash THEN value ELSE <<Data>> \o value

KindOf(name) == IF name \in Names THEN Kind[name] ELSE "plain"

\* Config::callback: what is kept for a value.
Callback(name, value) ==
  CASE KindOf(name) = "nitro" -> <<Nitro>> \o value
    [] KindOf(name) = "data" -> ConfigPathMember(value)
    [] OTHER -> value

Resources(map) == [name \in DOMAIN map |-> Callback(name, map[name])]

CopyTemplate ==
  LET lines == SelectSeq([i \in DOMAIN Template |-> StripWhitespace(Template[i])], Meant)
  IN [i \in DOMAIN lines |-> Append(lines[i], CR)]

\* Config::reload: the file it reads, and the values that it finds.
ConfigFile == IF file.exists THEN file.lines ELSE CopyTemplate
Reloaded == ParseFile(IF file.exists THEN ParseFile(<<>>, Template) ELSE <<>>, ConfigFile)

EndsInCr(line) == line # <<>> /\ Last(line) = CR

UpdateConfig(lines, name, value) ==
  LET at == SelectInSeq(lines, LAMBDA line : name \in DOMAIN ParameterSet(line, ";"))
      like(line) == name \o <<"=">> \o value \o (IF EndsInCr(line) THEN <<CR>> ELSE <<>>)
  IN IF at > 0 THEN [lines EXCEPT ![at] = like(lines[at])] ELSE Append(lines, like(lines[1]))

Before(a, b) ==
  \E i \in 1..Len(b) :
     /\ Len(a) >= i - 1 /\ SubSeq(a, 1, i - 1) = SubSeq(b, 1, i - 1)
     /\ Len(a) >= i => SelectInSeq(Alphabet, LAMBDA c : c = a[i]) < SelectInSeq(Alphabet, LAMBDA c : c = b[i])

----------------------------------------------------------------------------
(* URI::escape and unescape.  An escaped character is % and what it is.    *)

Escapable == {" ", "&", "#", "?", "=", "/", ":", "@", "%", "+"}
Hex == [c \in Escapable |-> "x" \o c]

Escape(text) == FlattenSeq([i \in DOMAIN text |->
  IF text[i] \in Escapable THEN <<"%", Hex[text[i]]>> ELSE <<text[i]>>])

\* A bug: the values are written as they came.
UnescapeNothing(text) == text

Unescape(text) ==
  LET isHex(i) == i \in DOMAIN text /\ \E c \in Escapable : text[i] = Hex[c]
      char(i) == CHOOSE c \in Escapable : text[i] = Hex[c]
  IN FlattenSeq([i \in DOMAIN text |->
       IF isHex(i) /\ i > 1 /\ text[i - 1] = "%" THEN <<char(i)>>
       ELSE IF text[i] = "%" /\ isHex(i + 1) THEN <<>> ELSE <<text[i]>>])

----------------------------------------------------------------------------
(* ConfigParser: what the page shows                                       *)

IsTrue(map) == \E name \in DOMAIN map : name \in DOMAIN resources /\ resources[name] = map[name]

Split(values) ==
  LET sep == SelectInSeq(values, LAMBDA c : c = ":")
  IN IF sep = 0 THEN [yes |-> values, no |-> <<>>]
     ELSE [yes |-> SubSeq(values, 1, sep - 1), no |-> SubSeq(values, sep + 1, Len(values))]

Chosen(middle, map, values) ==
  IF map = <<>> THEN middle ELSE IF IsTrue(map) THEN values.yes ELSE values.no

ParseMiddle(middle) ==
  LET pos == SelectInSeq(middle, LAMBDA c : c = "?")
  IN CASE pos > 0 -> Chosen(middle, ParameterSet(SubSeq(middle, 1, pos - 1), "|"),
                            Split(SubSeq(middle, pos + 1, Len(middle))))
       [] middle = <<>> \/ middle[1] # "cfg:" -> middle
       [] Tail(middle) \in DOMAIN resources -> resources[Tail(middle)]
       [] OTHER -> <<>>

\* One turn of replaceMarkers: the first two % and what is between them.
ReplaceOne(line) ==
  LET pos == SelectInSeq(line, LAMBDA c : c = "%")
      behind == SelectInSeq(SubSeq(line, pos + 1, Len(line)), LAMBDA c : c = "%")
  IN IF pos = 0 \/ behind = 0 THEN line
     ELSE SubSeq(line, 1, pos - 1) \o ParseMiddle(SubSeq(line, pos + 1, pos + behind - 1))
            \o SubSeq(line, pos + behind + 1, Len(line))

\* replaceMarkers, for values that have at most one pair of markers.
ReplaceMarkers(line) == ReplaceOne(ReplaceOne(line))

\* The value of an attribute ends at the quote.
Attribute(text) ==
  LET quote == SelectInSeq(text, LAMBDA c : c = "\"")
  IN IF quote = 0 THEN text ELSE SubSeq(text, 1, quote - 1)

\* A text field shows its value; one of a list of choices is selected.
Shown(field) ==
  IF field.type = "text" THEN Attribute(ReplaceMarkers(<<"%", "cfg:">> \o field.name \o <<"%">>))
  ELSE LET selected(v) == ReplaceMarkers(<<"%">> \o field.name \o <<"=">> \o v \o <<"?", "selected", "%">>) # <<>>
       IN IF \E v \in field.choices : selected(v)
          THEN CHOOSE v \in field.choices : selected(v) ELSE <<>>

----------------------------------------------------------------------------
(* FormControl: what the form sends                                        *)

\* A text field is sent with any value, a list only when something is chosen.
Included(i) == Fields[i].type = "text" \/ form[i] # <<>>
SentFields == SelectSeq([i \in DOMAIN Fields |-> i], Included)

ProcessedData(sent) ==
  FoldLeft(LAMBDA data, i : (IF data = <<>> THEN <<>> ELSE Append(data, "&"))
                              \o Escape(Fields[i].name) \o <<"=">> \o Escape(form[i]),
           <<>>, sent)

----------------------------------------------------------------------------
(* Actions                                                                 *)

Default == ParseFile(<<>>, Template)

Init ==
  /\ phase = "off" /\ file = [exists |-> FALSE, lines |-> <<>>]
  /\ writing = <<>> /\ resources = <<>> /\ form = <<>>
  /\ asked = Default /\ lost = {} /\ cutShort = FALSE /\ posts = 0 /\ cuts = 0

\* Config::reload, from the constructor of the Controller.
Start ==
  /\ phase = "off" /\ phase' = "on"
  /\ file' = [exists |-> TRUE, lines |-> ConfigFile]
  /\ resources' = Resources(Reloaded)
  /\ asked' = Reloaded /\ lost' = {} /\ cutShort' = FALSE
  /\ UNCHANGED <<writing, form, posts, cuts>>

\* Controller::localConfigFile
Open ==
  /\ phase = "on" /\ phase' = "page"
  /\ form' = [i \in DOMAIN Fields |-> Shown(Fields[i])]
  /\ UNCHANGED <<file, writing, resources, asked, lost, cutShort, posts, cuts>>

\* The user changes one field of the page as it was shown.
Edit ==
  /\ phase = "page"
  /\ form = [i \in DOMAIN Fields |-> Shown(Fields[i])]
  /\ \E i \in DOMAIN Fields :
       \E value \in (IF Fields[i].type = "text" THEN Typed ELSE Fields[i].choices) :
         form' = [form EXCEPT ![i] = value]
  /\ UNCHANGED <<phase, file, writing, resources, asked, lost, cutShort, posts, cuts>>

\* Values that the file cannot hold: it has neither quotes nor escapes.
Awkward(v) == v = <<>> \/ v[1] \in {" ", "\"", "'"} \/ Last(v) = " " \/ ";" \in ToSet(v)

\* An empty value takes the next setting of the form with it.
Swallows(sent) == \E n \in 1..Len(sent) - 1 : form[sent[n]] = <<>>

\* A value with a ; in it makes a second setting in its line, which
\* the next change of either loses.
Held(i) == DOMAIN ParameterSet(file.lines[i], ";")
Mixed == {name \in Names : \E i, j \in DOMAIN file.lines :
            name \in Held(i) /\ (i # j \/ Cardinality(Held(i)) > 1) /\ name \in Held(j)}

\* FormControl::input and Config::postConfiguration
Posted(set, sent) ==
  LET names == SetToSortSeq(DOMAIN set, Before)
      raw == [name \in DOMAIN set |-> Unescape(set[name])]
      sentNames == {Fields[i].name : i \in ToSet(sent)}
      field(name) == CHOOSE i \in ToSet(sent) : Fields[i].name = name
  IN /\ writing' = FoldLeft(LAMBDA lines, name : UpdateConfig(lines, name, raw[name]), file.lines, names)
     /\ resources' = Resources(raw) @@ resources
     /\ asked' = [name \in sentNames |-> form[field(name)]] @@ asked
     /\ lost' = (lost \ sentNames) \cup Mixed \cup
                {name \in sentNames : Swallows(sent) \/ Awkward(form[field(name)])}

Submit ==
  /\ phase = "page" /\ phase' = "writing" /\ posts < MaxPosts
  /\ file.lines # <<>>        \* else UpdateConfig reads the front of an empty vector
  /\ Posted(ParameterSet(ProcessedData(SentFields), "&"), SentFields)
  /\ form' = <<>> /\ posts' = posts + 1
  /\ UNCHANGED <<file, cutShort, cuts>>

Saved ==
  /\ phase = "writing" /\ phase' = "on"
  /\ file' = [file EXCEPT !.lines = writing] /\ writing' = <<>>
  /\ UNCHANGED <<resources, form, asked, lost, cutShort, posts, cuts>>

\* The power goes: what is being written ends anywhere.
PowerOff ==
  /\ phase # "off" /\ phase' = "off"
  /\ \/ phase # "writing" /\ UNCHANGED <<file, cutShort, cuts>>
     \/ /\ phase = "writing" /\ cutShort' = TRUE
        /\ cuts < MaxCuts /\ cuts' = cuts + 1
        /\ \E n \in 0..Len(Written(writing)) :
             file' = [file EXCEPT !.lines = ReadLines(SubSeq(Written(writing), 1, n))]
  /\ resources' = <<>> /\ writing' = <<>> /\ form' = <<>>
  /\ UNCHANGED <<asked, lost, posts>>

Next == Start \/ Open \/ Edit \/ Submit \/ Saved \/ PowerOff

----------------------------------------------------------------------------
(* Properties                                                              *)

\* What the next start may find for a setting.
Expected(name) ==
  IF cutShort THEN {asked[name], Default[name]} \cup {SubSeq(asked[name], 1, n) : n \in 0..Len(asked[name])}
  ELSE {asked[name]}

\* A start finds every setting as the user left it, whatever was sent in
\* between, but for values that the file cannot hold.  When the power went
\* while it was written, a setting may be the template's or cut.
SettingsAreKept ==
  [][Start => \A name \in Names \ (lost \cup Mixed) :
       resources'[name] \in {Callback(name, v) : v \in Expected(name)}]_vars

Simple(v) == v # <<>> /\ ToSet(v) \cap {"%", "\"", "'", ";"} = {}

\* The page sent back as it was shown changes no setting.
OkChangesNothing ==
  [][(Submit /\ form = [i \in DOMAIN Fields |-> Shown(Fields[i])]
        /\ \A i \in DOMAIN Fields : Simple(resources[Fields[i].name]))
       => \A name \in Names : resources'[name] = resources[name]]_vars

\* Settings change only as the user changes them (Config::postConfiguration, reload).
SettingsAreTheUsers == SettingsAreKept /\ OkChangesNothing
=============================================================================
