----------------------------- MODULE HtmlParser -----------------------------
(***************************************************************************)
(* HtmlParser (bunjalloo/source/HtmlParser.cpp): the tokeniser.  feed() is *)
(* given a piece of the page and calls the handler of the current state as *)
(* long as some of the piece is left; a handler takes a character or more, *)
(* and emits characters and tags.  A step is one handler.                  *)
(*                                                                         *)
(* A document is parsed twice: as one piece, and then cut into pieces      *)
(* anywhere.  Its text is bytes in UTF-8, which reset() sets; in the other *)
(* encoding each byte is a character.  Words that are only compared are    *)
(* shorter here: `doctype' is Doctype, and the table of entities Entities. *)
(***************************************************************************)
EXTENDS Integers, Sequences, SequencesExt

CONSTANTS Documents,   \* documents, as sequences of type Item
          Entities,    \* s_entity: records of a name and a value, in its order
          LongestName, \* the 11 characters that consumeEntity reads at most
          Raw, Text, Plain \* names of tags: script and style, title and
                           \* textarea, plaintext

Letters  == {"b", "c", "d", "l", "n", "o", "s", "t", "x", "y"}
Digits   == {"1", "2"}
Blanks   == {" "}
Doctype  == <<"d", "o", "c">>
NoBreak  == <<"n", "b", ";">>

\* The bytes of a character that takes more than one, the character, and what
\* is read where there is only a part of one.
Lead    == "C3"
Trail   == "A9"
Wide    == "U+E9"
Misread == "U+FFFD"

VARIABLES
  text, position,  \* m_input to m_end, and m_position as an index of it
  state, lastState, \* m_state, m_lastState
  contentModel,    \* m_contentModel
  tag,             \* m_tagTokenType, m_currentTagToken, m_tagAttributes
  attribute,       \* m_attribute, as a sequence of none or one
  lastStartTag,    \* m_lastStartTagToken
  leftOvers,       \* m_leftOvers
  lastEmitted,     \* the static variable of emit()
  tokens,          \* what was emitted
  document, rest,  \* what is parsed, and what of it was not fed yet
  whole,           \* tokens of the document in one piece, when that is done
  torn             \* a piece ended inside a character, or where a handler looks
                   \* further ahead

reading == <<text, rest, document, whole>>
tagging == <<tag, attribute>>
output  == <<tokens, lastEmitted, lastStartTag, contentModel>>
vars == <<reading, position, state, lastState, tagging, output, leftOvers, torn>>

States == {"BOM", "DATA", "ENTITY_DATA", "TAG_OPEN", "CLOSE_TAG_OPEN", "TAG_NAME",
  "BEFORE_ATTRIBUTE_NAME", "ATTRIBUTE_NAME", "AFTER_ATTRIBUTE_NAME",
  "BEFORE_ATTRIBUTE_VALUE", "ATTRIBUTE_VALUE_DOUBLE_QUOTE",
  "ATTRIBUTE_VALUE_SINGLE_QUOTE", "ATTRIBUTE_VALUE_UNQUOTED",
  "ENTITY_IN_ATTRIBUTE_VALUE", "BOGUS_COMMENT", "MARKUP_DECLARTION_OPEN",
  "COMMENT", "COMMENT_DASH", "COMMENT_END", "DOCTYPE", "BEFORE_DOCTYPE_NAME",
  "DOCTYPE_NAME", "AFTER_DOCTYPE_NAME", "BOGUS_DOCTYPE"}

Quote == [double |-> "\"", single |-> "'"]
NoTag == [type |-> "START", name |-> <<>>, attrs |-> <<>>]

----------------------------------------------------------------------------
(* Documents: their text, and the tokens that HTML says they have          *)

Character(c) == [token |-> "char", value |-> c]
Characters(s) == [i \in 1..Len(s) |-> Character(s[i])]
StartTag(name, attrs) == [token |-> "START", name |-> name, attrs |-> attrs]
EndTag(name) == [token |-> "END", name |-> name, attrs |-> <<>>]

AttributeText(a) ==
  <<" ">> \o a.name \o
    CASE a.form = "none" -> <<>>
      [] a.form = "bare" -> <<"=">> \o a.text
      [] a.form \in DOMAIN Quote -> <<"=", Quote[a.form]>> \o a.text \o <<Quote[a.form]>>

ItemText(i) ==
  CASE i.item = "text"    -> i.text
    [] i.item = "comment" -> <<"<", "!", "-", "-">> \o i.text \o <<"-", "-", ">">>
    [] i.item = "doctype" -> <<"<", "!">> \o Doctype \o i.text \o <<">">>
    [] i.item = "bogus"   -> <<"<", "?">> \o i.text \o <<">">>
    [] i.item = "end"     -> <<"<", "/">> \o i.name \o <<">">>
    [] i.item = "element" -> <<"<">> \o i.name \o <<">">> \o i.text
                               \o <<"<", "/">> \o i.name \o <<">">>
    [] i.item = "tag"     -> <<"<">> \o i.name
                               \o FlattenSeq([k \in 1..Len(i.attrs) |-> AttributeText(i.attrs[k])])
                               \o (IF i.slash THEN <<" ", "/", ">">> ELSE <<">">>)

\* An attribute without a value is forgotten when the tag ends with it, and so
\* is the slash after it; one with the name of an earlier one is discarded.
EndsUnvalued(attrs) == attrs # <<>> /\ attrs[Len(attrs)].form = "none"
Kept(attrs) ==
  LET Counts(k) == /\ \A j \in 1..k - 1 : attrs[j].name # attrs[k].name
                   /\ k = Len(attrs) => ~EndsUnvalued(attrs)
      Attr(a) == [name |-> a.name, value |-> a.value]
  IN FlattenSeq([k \in 1..Len(attrs) |-> IF Counts(k) THEN <<Attr(attrs[k])>> ELSE <<>>])

ItemTokens(i) ==
  CASE i.item = "text"    -> Characters(i.value)
    [] i.item \in {"comment", "doctype", "bogus"} -> <<>>
    [] i.item = "end"     -> <<EndTag(i.name)>>
    [] i.item = "element" -> <<StartTag(i.name, <<>>)>> \o Characters(i.value)
                               \o <<EndTag(i.name)>>
    [] i.item = "tag"     -> <<[StartTag(i.name, Kept(i.attrs)) EXCEPT
                                 !.token = IF i.slash /\ ~EndsUnvalued(i.attrs)
                                                        THEN "START_END" ELSE @]>>

TextOf(d)   == FlattenSeq([i \in 1..Len(d) |-> ItemText(d[i])])
TokensOf(d) == FlattenSeq([i \in 1..Len(d) |-> ItemTokens(d[i])])

----------------------------------------------------------------------------
(* Reading                                                                 *)

Left == position <= Len(text)

\* next() at k: m_value, and how far it moves m_position.  utf8::next returns
\* U+FFFD and does not move where the piece has not all of a character; then,
\* and past the end, next() skips a byte.
Length(k) == IF k < Len(text) /\ text[k] = Lead /\ text[k + 1] = Trail THEN 2 ELSE 1
Value(k)  == IF Length(k) = 2 THEN Wide
             ELSE IF text[k] \in {Lead, Trail} THEN Misread ELSE text[k]
\* handlers are called while there is some text left.
c == Value(position)
In(s) == state = s /\ Left

Goto(s)  == state' = s
Consumed(n) == FoldLeft(LAMBDA k, i : k + Length(k), position, [i \in 1..n |-> i])
Next1    == position' = Consumed(1)
Rewound  == position' = position
Silent   == UNCHANGED <<output, leftOvers, torn>>
Untagged == UNCHANGED tagging

\* isalpha is asked of U+FFFD too, which C leaves undefined.
Alphas == Letters \cup {Misread}
\* What a char keeps of a character.
AsChar(v) == CASE v = Wide -> "E9" [] v = Misread -> "FD" [] OTHER -> v

\* asUnconsumedCharString(amount): the next characters, none when the piece
\* has not as many; after left overs, what the piece has if it has enough.
\* What is erased of the left overs is the number that they did not have.
Ahead(amount) == IF position + amount - 1 <= Len(text)
                 THEN SubSeq(text, position, position + amount - 1) ELSE <<>>
Unconsumed(left, amount) ==
  LET old  == SubSeq(left, 1, IF amount < Len(left) THEN amount ELSE Len(left))
      more == amount - Len(old)
  IN IF left = <<>> THEN [chars |-> Ahead(amount), left |-> <<>>]
     ELSE [chars |-> old \o Ahead(more), left |-> SubSeq(left, more + 1, Len(left))]

SetLeftovers(left) ==
  /\ leftOvers' = Unconsumed(left, Len(text) - position + 1).chars
  /\ position' = Len(text) + 1 /\ torn' = TRUE
  /\ UNCHANGED <<state, tagging, output>>

\* emit: CR LF is one line feed, and so is CR.
RECURSIVE Emitted(_, _)
Emitted(last, chars) ==
  IF chars = <<>> THEN <<>>
  ELSE (IF last = "CR" /\ Head(chars) = "LF" THEN <<>>
        ELSE <<Character(IF Head(chars) = "CR" THEN "LF" ELSE Head(chars))>>)
       \o Emitted(Head(chars), Tail(chars))

Emit(chars) == /\ tokens' = tokens \o Emitted(lastEmitted, chars)
               /\ lastEmitted' = chars[Len(chars)]
               /\ UNCHANGED <<lastStartTag, contentModel, leftOvers, torn>>

\* What HtmlDocument's handlers set the model to.
ModelAfter(t) == IF t.type = "END" THEN contentModel
                 ELSE IF t.name \in Raw THEN "CDATA"
                 ELSE IF t.name \in Text THEN "RCDATA"
                 ELSE IF t.name \in Plain THEN "PLAINTEXT" ELSE contentModel

\* The tag with the attributes that were added to it.
EmitTagToken(t) ==
  /\ tokens' = Append(tokens, [token |-> t.type, name |-> t.name,
                               attrs |-> IF t.type = "END" THEN <<>> ELSE t.attrs])
  /\ lastStartTag' = IF t.type = "START" THEN t.name ELSE <<>>
  /\ contentModel' = ModelAfter(t)
  /\ tag' = [t EXCEPT !.attrs = <<>>] /\ attribute' = <<>>
  /\ UNCHANGED <<lastEmitted, leftOvers, torn>>

----------------------------------------------------------------------------
(* Entities                                                                *)

\* getMatches(chars) finds the first name that agrees with chars as far as
\* the shorter of the two goes.
Agrees(name, chars) == IsPrefix(name, chars) \/ IsPrefix(chars, name)
Matches(chars) == {i \in 1..Len(Entities) : Agrees(Entities[i].name, chars)}
Match(chars) == Entities[CHOOSE i \in Matches(chars) : \A j \in Matches(chars) : i <= j]
Exact(chars) == Matches(chars) # {} /\ IsPrefix(Match(chars).name, chars)

\* What consumeEntity returns ("" for 0), m_position after it, and whether it
\* ended because the piece did.
Nothing == [value |-> "", position |-> position, torn |-> FALSE]

FirstOf(places) == CHOOSE k \in places : \A j \in places : k <= j
LastOf(places)  == CHOOSE k \in places : \A j \in places : k >= j

\* digits: what isdigit takes for one, perhaps U+FFFD; strtol does not.
Number(digits) ==
  LET from == IF position + 1 <= Len(text) /\ text[position + 1] = "x"
              THEN position + 2 ELSE position + 1
      Upto(values) == FirstOf({k \in from..Len(text) : Value(k) \notin values} \cup {Len(text) + 1})
      end    == Upto(digits)
      number == SubSeq(text, from, Upto(Digits) - 1)
      ended  == end <= Len(text)
  IN IF end = from THEN [Nothing EXCEPT !.torn = ~ended]
     ELSE [value |-> IF number = <<>> THEN "" ELSE FoldLeft(LAMBDA n, d : n \o d, "#", number),
           \* the character that ends it is consumed, whatever it is
           position |-> IF ended THEN end + Length(end) ELSE end, torn |-> ~ended]

\* Up to ";", to a character with which no name agrees, or to the eleventh.
Named ==
  LET Start(k)  == Consumed(k - 1)
      Prefix(k) == [i \in 1..k |-> AsChar(Value(Start(i)))]
      Ended(k)  == Value(Start(k)) = ";"
      readable  == {k \in 1..LongestName : Start(k) <= Len(text)}
      stops     == {k \in readable : Ended(k) \/ Matches(Prefix(k)) = {} \/ k = LongestName}
      last      == IF stops = {} THEN LastOf(readable) ELSE FirstOf(stops)
      found     == {k \in 1..last : ~Ended(k) /\ Exact(Prefix(k))}
  IN IF found = {} THEN [Nothing EXCEPT !.torn = stops = {}]
     ELSE [value |-> Match(Prefix(LastOf(found))).value,
           position |-> IF Ended(last) THEN Start(last + 1) ELSE Start(last),
           torn |-> stops = {}]

ConsumeEntity ==
  CASE c = "#" -> {Number(digits) : digits \in {Digits, Digits \cup {Misread}}}
    [] Unconsumed(leftOvers, Len(NoBreak)).chars = NoBreak
         -> {[value |-> "nbsp", position |-> Consumed(Len(NoBreak)), torn |-> FALSE]}
    [] OTHER -> {Named}
\* The comparison with NoBreak takes from the left overs.
AfterEntity == IF c = "#" THEN leftOvers ELSE Unconsumed(leftOvers, Len(NoBreak)).left

----------------------------------------------------------------------------
(* Text                                                                    *)

HandleBom == In("BOM") /\ Goto("DATA") /\ Rewound /\ Untagged /\ Silent

HandleData ==
  /\ In("DATA") /\ Next1 /\ Untagged
  /\ \/ /\ c = "&" /\ contentModel \in {"PCDATA", "RCDATA"}
        /\ Goto("ENTITY_DATA") /\ Silent
     \/ c = "<" /\ contentModel # "PLAINTEXT" /\ Goto("TAG_OPEN") /\ Silent
     \/ /\ c = "<" => contentModel = "PLAINTEXT"
        /\ c = "&" => contentModel \in {"CDATA", "PLAINTEXT"}
        /\ Emit(<<c>>) /\ UNCHANGED state

HandleEntityData ==
  /\ In("ENTITY_DATA") /\ Goto("DATA") /\ Untagged
  /\ \E e \in ConsumeEntity :
     /\ position' = e.position /\ torn' = (torn \/ e.torn)
     /\ LET chars == IF e.value = "" THEN <<"&">> ELSE <<e.value>> IN
        /\ tokens' = tokens \o Emitted(lastEmitted, chars) /\ lastEmitted' = chars[1]
     /\ leftOvers' = AfterEntity /\ UNCHANGED <<lastStartTag, contentModel>>

----------------------------------------------------------------------------
(* Tags                                                                    *)

NewTag(type) == tag' = [type |-> type, name |-> <<AsChar(c)>>, attrs |-> tag.attrs]
ToBogusComment == Goto("BOGUS_COMMENT") /\ Next1 /\ Untagged /\ Silent

HandleTagOpen ==
  /\ In("TAG_OPEN")
  /\ IF contentModel # "PCDATA"
     THEN \/ c = "/" /\ Goto("CLOSE_TAG_OPEN") /\ Next1 /\ Untagged /\ Silent
          \/ c # "/" /\ Goto("DATA") /\ Rewound /\ Untagged /\ Emit(<<"<">>)
     ELSE \/ /\ c \in Alphas /\ Goto("TAG_NAME") /\ Next1 /\ NewTag("START")
             /\ UNCHANGED attribute /\ Silent
          \/ c = "!" /\ Goto("MARKUP_DECLARTION_OPEN") /\ Next1 /\ Untagged /\ Silent
          \/ c = "/" /\ Goto("CLOSE_TAG_OPEN") /\ Next1 /\ Untagged /\ Silent
          \/ c = "?" /\ ToBogusComment
          \/ /\ c \notin Letters \cup {"!", "/", "?"} /\ Goto("DATA") /\ Next1 /\ Untagged
             \* the character after "<" is lost
             /\ Emit(<<IF c = ">" THEN ">" ELSE "<">>)

\* Of a raw element only the tag that ends it ends it.
HandleCloseTagOpen ==
  LET ahead == Unconsumed(leftOvers, Len(lastStartTag) + 1)
      few   == ahead.chars
      ends  == /\ few # <<>>
               /\ SubSeq(few, 1, Len(few) - 1) = lastStartTag
               /\ few[Len(few)] \in Blanks \cup {">", "/", "<"}
      torn_  == torn \/ leftOvers # <<>>
      raw    == contentModel # "PCDATA"
  IN
  /\ In("CLOSE_TAG_OPEN")
  /\ \/ raw /\ few = <<>> /\ SetLeftovers(ahead.left)
     \/ /\ raw /\ few # <<>> /\ ~ends
        /\ Goto("DATA") /\ Rewound /\ Untagged
        /\ tokens' = tokens \o Emitted(lastEmitted, <<"<", "/">>) /\ lastEmitted' = "/"
        /\ leftOvers' = ahead.left /\ torn' = torn_
        /\ UNCHANGED <<lastStartTag, contentModel>>
     \/ /\ raw => ends
        /\ contentModel' = "PCDATA" /\ Next1
        /\ leftOvers' = (IF raw THEN ahead.left ELSE leftOvers)
        /\ torn' = (IF raw THEN torn_ ELSE torn)
        /\ \/ c \in Alphas /\ Goto("TAG_NAME") /\ NewTag("END") /\ UNCHANGED attribute
           \/ c = ">" /\ Goto("DATA") /\ Untagged
           \/ c \notin Letters \cup {">"} /\ Goto("BOGUS_COMMENT") /\ Untagged
        /\ UNCHANGED <<tokens, lastEmitted, lastStartTag>>

\* A slash makes a tag that starts one that also ends.
Slashed == IF tag.type = "START" THEN [tag EXCEPT !.type = "START_END"] ELSE tag

HandleTagName ==
  /\ In("TAG_NAME") /\ Next1
  /\ \/ /\ c \in Blanks \cup {"/"} /\ Goto("BEFORE_ATTRIBUTE_NAME")
        /\ tag' = (IF c = "/" THEN Slashed ELSE tag) /\ UNCHANGED attribute /\ Silent
     \/ c \in {"<", ">"} /\ Goto("DATA") /\ EmitTagToken(tag)
     \/ /\ c \notin Blanks \cup {"/", "<", ">"} /\ UNCHANGED state
        /\ tag' = [tag EXCEPT !.name = Append(@, AsChar(c))] /\ UNCHANGED attribute /\ Silent

----------------------------------------------------------------------------
(* Attributes                                                              *)

Attributes == tag.attrs \o attribute     \* addAttribute
WithAttribute == [tag EXCEPT !.attrs = Attributes]
\* "<" ends a tag and is read again.
EndsTag(t) == /\ c \in {"<", ">"} /\ Goto("DATA") /\ EmitTagToken(t)
              /\ IF c = "<" THEN Rewound ELSE Next1
NewAttribute == /\ tag' = WithAttribute /\ attribute' = <<[name |-> <<AsChar(c)>>, value |-> <<>>]>>
                /\ Goto("ATTRIBUTE_NAME") /\ Next1 /\ Silent

HandleBeforeAttributeName ==
  /\ In("BEFORE_ATTRIBUTE_NAME")
  /\ \/ /\ c \in Blanks \cup {"/"} /\ UNCHANGED state /\ Next1
        /\ tag' = (IF c = "/" THEN Slashed ELSE tag) /\ UNCHANGED attribute /\ Silent
     \/ EndsTag(tag)
     \/ c \notin Blanks \cup {"/", "<", ">"} /\ NewAttribute

\* m_attribute when its name is complete.
AttributeOnce == IF \E k \in 1..Len(tag.attrs) : tag.attrs[k].name = attribute[1].name
                 THEN <<>> ELSE attribute

HandleAttributeName ==
  /\ In("ATTRIBUTE_NAME")
  /\ \/ /\ c \in Blanks \cup {"=", "/"} /\ Next1
        /\ Goto(CASE c \in Blanks -> "AFTER_ATTRIBUTE_NAME"
                  [] c = "="       -> "BEFORE_ATTRIBUTE_VALUE"
                  [] c = "/"       -> "BEFORE_ATTRIBUTE_NAME")
        /\ attribute' = AttributeOnce
        /\ UNCHANGED tag /\ Silent
     \/ EndsTag(tag)
     \/ /\ c \notin Blanks \cup {"=", "/", "<", ">"} /\ Next1 /\ UNCHANGED <<state, tag>>
        /\ attribute' = <<[attribute[1] EXCEPT !.name = Append(@, c)]>> /\ Silent

HandleAfterAttributeName ==
  /\ In("AFTER_ATTRIBUTE_NAME")
  /\ \/ /\ c \in Blanks \cup {"=", "/"} /\ Next1 /\ Untagged /\ Silent
        /\ Goto(CASE c \in Blanks -> state
                  [] c = "="       -> "BEFORE_ATTRIBUTE_VALUE"
                  [] c = "/"       -> "BEFORE_ATTRIBUTE_NAME")
     \/ EndsTag(tag)
     \/ c \notin Blanks \cup {"=", "/", "<", ">"} /\ NewAttribute

\* appendValueToAttributeValue, and the entity that is appended
Valued(chars) == attribute' = IF attribute = <<>> THEN <<>>
                              ELSE <<[attribute[1] EXCEPT !.value = @ \o chars]>>

HandleBeforeAttributeValue ==
  /\ In("BEFORE_ATTRIBUTE_VALUE")
  /\ \/ /\ c \in Blanks \cup {Quote.double, Quote.single, "&"} /\ Next1 /\ Untagged /\ Silent
        /\ Goto(CASE c \in Blanks      -> state
                  [] c = Quote.double  -> "ATTRIBUTE_VALUE_DOUBLE_QUOTE"
                  [] c = Quote.single  -> "ATTRIBUTE_VALUE_SINGLE_QUOTE"
                  [] c = "&"           -> "ATTRIBUTE_VALUE_UNQUOTED")   \* and is lost
     \/ EndsTag(tag)
     \/ /\ c \notin Blanks \cup {Quote.double, Quote.single, "&", "<", ">"} /\ Next1
        /\ Goto("ATTRIBUTE_VALUE_UNQUOTED") /\ Valued(<<c>>) /\ UNCHANGED tag /\ Silent

AddAttribute == tag' = WithAttribute /\ attribute' = <<>>
ToEntity == /\ Goto("ENTITY_IN_ATTRIBUTE_VALUE") /\ lastState' = state
            /\ Next1 /\ Untagged /\ Silent

HandleAttributeValueQuote ==
  LET quote == IF state = "ATTRIBUTE_VALUE_DOUBLE_QUOTE" THEN Quote.double ELSE Quote.single IN
  /\ In("ATTRIBUTE_VALUE_DOUBLE_QUOTE") \/ In("ATTRIBUTE_VALUE_SINGLE_QUOTE")
  /\ \/ /\ c = quote /\ Next1 /\ Goto("BEFORE_ATTRIBUTE_NAME") /\ AddAttribute
        /\ Silent /\ UNCHANGED lastState
     \/ c = "&" /\ ToEntity
     \/ /\ c \notin {quote, "&"} /\ Next1 /\ Valued(<<c>>) /\ UNCHANGED <<state, tag>>
        /\ Silent /\ UNCHANGED lastState

HandleAttributeValueUnquoted ==
  /\ In("ATTRIBUTE_VALUE_UNQUOTED")
  /\ \/ /\ c \in Blanks /\ Next1 /\ Goto("BEFORE_ATTRIBUTE_NAME") /\ AddAttribute
        /\ Silent /\ UNCHANGED lastState
     \/ c = "&" /\ ToEntity
     \/ EndsTag(WithAttribute) /\ UNCHANGED lastState
     \/ /\ c \notin Blanks \cup {"&", "<", ">"} /\ Next1 /\ Valued(<<c>>)
        /\ UNCHANGED <<state, tag>> /\ Silent /\ UNCHANGED lastState

HandleEntityInAttributeValue ==
  /\ In("ENTITY_IN_ATTRIBUTE_VALUE") /\ Goto(lastState)
  /\ \E e \in ConsumeEntity :
     /\ position' = e.position /\ torn' = (torn \/ e.torn)
     /\ Valued(IF e.value = "" THEN <<"&">> ELSE <<e.value>>)
  /\ leftOvers' = AfterEntity /\ UNCHANGED <<tag, output>>

----------------------------------------------------------------------------
(* Comments and declarations                                               *)

\* Up to ">" or to the end of the piece.
HandleBogusComment ==
  LET ends == {k \in position..Len(text) : text[k] = ">"} IN
  /\ In("BOGUS_COMMENT") /\ Goto("DATA")
  /\ position' = 1 + (IF ends = {} THEN Len(text)
                      ELSE FirstOf(ends))
  /\ torn' = (torn \/ ends = {})
  /\ UNCHANGED <<tagging, output, leftOvers>>

\* The two calls of asUnconsumedCharString; left overs are used up by them.
HandleMarkupDeclarationOpen ==
  LET next2 == Unconsumed(leftOvers, 2)
      next7 == Unconsumed(next2.left, Len(Doctype))
      Goes(s, n, left) == /\ Goto(s) /\ position' = Consumed(n) /\ leftOvers' = left
                          /\ torn' = (torn \/ leftOvers # <<>>) /\ UNCHANGED <<tagging, output>>
  IN
  /\ In("MARKUP_DECLARTION_OPEN")
  /\ \/ next2.chars = <<>> /\ SetLeftovers(next2.left)
     \/ next2.chars = <<"-", "-">> /\ Goes("COMMENT", 2, next2.left)
     \/ /\ next2.chars \notin {<<>>, <<"-", "-">>}
        /\ \/ next7.chars = <<>> /\ SetLeftovers(next7.left)
           \/ next7.chars = Doctype /\ Goes("DOCTYPE", Len(Doctype), next7.left)
           \/ next7.chars \notin {<<>>, Doctype} /\ Goes("BOGUS_COMMENT", 0, next7.left)

Skips(s, chars, to) == In(s) /\ c \in chars /\ Goto(to) /\ Next1 /\ Untagged /\ Silent
Other(chars) == {Value(k) : k \in 1..Len(text)} \ chars

HandleComment    == Skips("COMMENT", {"-"}, "COMMENT_DASH") \/ Skips("COMMENT", Other({"-"}), "COMMENT")
HandleCommentDash == \/ Skips("COMMENT_DASH", {"-"}, "COMMENT_END")
                     \/ Skips("COMMENT_DASH", Other({"-"}), "COMMENT")
HandleCommentEnd == \/ Skips("COMMENT_END", {">"}, "DATA")
                    \/ Skips("COMMENT_END", {"-"}, "COMMENT_END")
                    \/ Skips("COMMENT_END", Other({">", "-"}), "COMMENT")

HandleDoctype ==
  \/ Skips("DOCTYPE", Blanks, "BEFORE_DOCTYPE_NAME")
  \/ /\ In("DOCTYPE") /\ c \notin Blanks /\ Goto("BEFORE_DOCTYPE_NAME") /\ Rewound
     /\ Untagged /\ Silent
HandleBeforeDoctypeName ==
  \/ Skips("BEFORE_DOCTYPE_NAME", Blanks, "BEFORE_DOCTYPE_NAME")
  \/ Skips("BEFORE_DOCTYPE_NAME", {">"}, "DATA")
  \/ Skips("BEFORE_DOCTYPE_NAME", Other(Blanks \cup {">"}), "DOCTYPE_NAME")
HandleDoctypeName ==
  \/ Skips("DOCTYPE_NAME", Blanks, "AFTER_DOCTYPE_NAME")
  \/ Skips("DOCTYPE_NAME", {">"}, "DATA")
  \/ Skips("DOCTYPE_NAME", Other(Blanks \cup {">"}), "DOCTYPE_NAME")
HandleAfterDoctypeName ==
  \/ Skips("AFTER_DOCTYPE_NAME", Blanks, "AFTER_DOCTYPE_NAME")
  \/ Skips("AFTER_DOCTYPE_NAME", {">"}, "DATA")
  \/ Skips("AFTER_DOCTYPE_NAME", Other(Blanks \cup {">"}), "BOGUS_DOCTYPE")
HandleBogusDoctype ==
  \/ Skips("BOGUS_DOCTYPE", {">"}, "DATA")
  \/ Skips("BOGUS_DOCTYPE", Other({">"}), "BOGUS_DOCTYPE")

----------------------------------------------------------------------------
(* The page                                                                *)

Handle == /\ \/ HandleBom \/ HandleData \/ HandleEntityData \/ HandleTagOpen
             \/ HandleCloseTagOpen \/ HandleTagName \/ HandleBeforeAttributeName
             \/ HandleAttributeName \/ HandleAfterAttributeName
             \/ HandleBeforeAttributeValue \/ HandleEntityInAttributeValue
             \/ HandleBogusComment \/ HandleMarkupDeclarationOpen \/ HandleComment
             \/ HandleCommentDash \/ HandleCommentEnd \/ HandleDoctype
             \/ HandleBeforeDoctypeName \/ HandleDoctypeName
             \/ HandleAfterDoctypeName \/ HandleBogusDoctype
          /\ UNCHANGED <<reading, lastState>>
HandleValue == /\ HandleAttributeValueQuote \/ HandleAttributeValueUnquoted
               /\ UNCHANGED reading

Init ==
  /\ document \in Documents /\ rest = TextOf(document) /\ text = <<>> /\ position = 1
  /\ state = "BOM" /\ lastState = "DATA" /\ contentModel = "PCDATA"
  /\ tag = NoTag /\ attribute = <<>> /\ lastStartTag = <<>> /\ leftOvers = <<>>
  /\ tokens = <<>> /\ lastEmitted = "" /\ whole = [done |-> FALSE, tokens |-> <<>>]
  /\ torn = FALSE

\* feed() with the next piece: at first there is only one.
Feed ==
  /\ ~Left /\ rest # <<>>
  /\ \E n \in 1..Len(rest) :
       /\ whole.done \/ n = Len(rest)
       /\ text' = SubSeq(rest, 1, n) /\ rest' = SubSeq(rest, n + 1, Len(rest))
       /\ torn' = (torn \/ (n < Len(rest) /\ rest[n] = Lead /\ rest[n + 1] = Trail))
  /\ position' = 1
  /\ UNCHANGED <<document, whole, state, lastState, tagging, output, leftOvers>>

\* Mutant: the content model stays.
SetToStartKeepsModel ==
  /\ ~Left /\ rest = <<>> /\ ~whole.done
  /\ whole' = [done |-> TRUE, tokens |-> tokens]
  /\ text' = <<>> /\ position' = 1 /\ rest' = TextOf(document) /\ tokens' = <<>>
  /\ attribute' = <<>> /\ tag' = [tag EXCEPT !.attrs = <<>>]
  /\ state' = "BOM" /\ leftOvers' = <<>> /\ torn' = FALSE
  /\ UNCHANGED <<document, contentModel, lastState, lastEmitted, lastStartTag>>

\* setToStart, for the same document again.  The name of the last start tag and
\* the character that was emitted last stay.
SetToStart ==
  /\ ~Left /\ rest = <<>> /\ ~whole.done
  /\ whole' = [done |-> TRUE, tokens |-> tokens]
  /\ text' = <<>> /\ position' = 1 /\ rest' = TextOf(document) /\ tokens' = <<>>
  /\ attribute' = <<>> /\ tag' = [tag EXCEPT !.attrs = <<>>]
  /\ state' = "BOM" /\ contentModel' = "PCDATA" /\ leftOvers' = <<>> /\ torn' = FALSE
  /\ UNCHANGED <<document, lastState, lastEmitted, lastStartTag>>

Next == Handle \/ HandleValue \/ Feed \/ SetToStart

Spec == Init /\ [][Next]_vars

----------------------------------------------------------------------------
(* Properties                                                              *)

\* A document that is fed in one piece has the tokens of its items: nothing of
\* a comment or declaration, of a tag each attribute with its own value and
\* each name once, entities decoded in text and values and left alone in a
\* script, which only its own end tag ends.
TokensAreTheItems == whole.done => whole.tokens = TokensOf(document)

\* How the network cuts the page makes no difference, as long as no piece ends
\* inside a character, or where a handler has to look at more than one.
PiecesMakeNoDifference ==
  /\ torn \/ ~whole.done \/ IsPrefix(tokens, whole.tokens)
  /\ ~torn /\ whole.done /\ ~Left /\ rest = <<>> => tokens = whole.tokens

\* However a page is cut, HtmlParser makes the tokens of the things that are in it.
PageIsRead == TokensAreTheItems /\ PiecesMakeNoDifference

=============================================================================
