----------------------------- MODULE TextEditor -----------------------------
(***************************************************************************)
(* The keyboard and the text it edits: Keyboard and EditableTextArea of    *)
(* bwt/source, with what they use of string_utils and Font.  TextArea      *)
(* keeps the text in lines, EditableTextArea the caret as a line and a     *)
(* character of it.                                                        *)
(***************************************************************************)
EXTENDS TextArea

CONSTANTS Chars,      \* characters that the keys of a row give, by modifiers
          Values,     \* texts that an entry may have
          MaxLength   \* bound: of the text

VARIABLES
  document,     \* m_document
  caretLine,    \* m_caretLine: lines count from 0, -1 for none
  caretChar,    \* m_caretChar
  visible, extra, shift, capsLock,
  initialText,  \* m_initialText
  multiLine     \* m_entry's isMultiLine()

vars == <<document, caretLine, caretChar, visible, extra, shift, capsLock, initialText, multiLine>>

Characters(line) == Len(document[line + 1])

\* layoutText of every text, each computed once.
Texts == Values \cup BoundedSeq(Range(Chars) \cup Blank, MaxLength)
Lines == [text \in Texts |-> Appended(Cleared, text, Width, TRUE).lines]
Layout(text) == Lines[text]

Text == FlattenSeq(document)
Place == Offset(document, caretLine) + caretChar

\* The caret is at a character of a line, or behind the last one.
CaretInText == caretLine >= 0 => caretLine < Len(document) /\ caretChar \in 0..Characters(caretLine)

----------------------------------------------------------------------------
Init ==
  /\ document = <<<<>>>> /\ caretLine = -1 /\ caretChar = -1
  /\ visible = FALSE /\ extra = FALSE /\ shift = FALSE /\ capsLock = FALSE
  /\ initialText = <<>> /\ multiLine = FALSE

Keeps == UNCHANGED <<initialText, multiLine, visible>>
KeepsModifiers == UNCHANGED <<extra, shift, capsLock>>

\* clearText: the next text is appended.
ClearText == document' = <<<<>>>> /\ caretLine' = -1 /\ caretChar' = -1

\* The line on which a place is, and the place in it.
CaretAt(lines, place) ==
  LET line == CHOOSE i \in 0..Len(lines) - 1 :
                place <= Offset(lines, i + 1) /\ (i = 0 \/ place > Offset(lines, i))
  IN [line |-> line, char |-> place - Offset(lines, line)]

\* A new line takes the caret to the next one.
NextLine(at, s) == IF s = <<NL>> THEN [line |-> at.line + 1, char |-> 0] ELSE at

\* EditableTextArea::appendText: at the caret, or at the end when there is none.
AppendText(lines, line, char, s) ==
  LET place == IF line = -1 THEN 0 ELSE Offset(lines, line) + char
      text  == FlattenSeq(lines)
      laid  == Layout(SubSeq(text, 1, place) \o s \o SubSeq(text, place + 1, Len(text)))
      caret == IF line = -1 THEN [line |-> Len(laid) - 1, char |-> Len(Last(laid))]
               ELSE NextLine(CaretAt(laid, place + Len(s)), s)
  IN document' = laid /\ caretLine' = caret.line /\ caretChar' = caret.char

\* Keyboard::appendText, for a caret that is in the text.
Typed(s) ==
  /\ visible /\ CaretInText /\ Len(Text) < MaxLength
  /\ AppendText(document, caretLine, caretChar, s) /\ Keeps

\* updateModifierKeys: what the keys of the rows give.
Caps == shift # capsLock
KeyText == <<Chars[[extra |-> extra, caps |-> Caps]]>>

Type ==
  \E s \in {KeyText, <<Space>>} \cup (IF multiLine THEN {<<NL>>} ELSE {}) :
    /\ Typed(s) /\ UNCHANGED capsLock
    /\ IF s = KeyText THEN shift' = FALSE /\ extra' = FALSE ELSE UNCHANGED <<shift, extra>>

Modifier ==
  /\ visible
  /\ \/ shift' = ~shift /\ UNCHANGED <<extra, capsLock>>
     \/ capsLock' = ~capsLock /\ UNCHANGED <<extra, shift>>
     \/ extra' = ~extra /\ UNCHANGED <<shift, capsLock>>
  /\ UNCHANGED <<document, caretLine, caretChar>> /\ Keeps

\* removeOneCharacter, and removeLastCharacter.
Without(line, char) == IF line = <<>> THEN line ELSE RemoveAt(line, char + 1)

DeleteLast ==
  /\ document' = [document EXCEPT ![Len(document)] = IF @ = <<>> THEN @ ELSE Front(@)]
  /\ UNCHANGED <<caretLine, caretChar>>

\* Mutant: the line is joined without the deletion.
DeleteBeforeLineJoins(line) ==
  /\ document' = Layout(Text)
  /\ caretLine' = line /\ caretChar' = Characters(line) - 1

\* The last character of the line before.
DeleteBeforeLine(line) ==
  LET char == Characters(line) - 1
  IN /\ document' = Layout(FlattenSeq([document EXCEPT ![line + 1] = Without(@, char)]))
     /\ caretLine' = line /\ caretChar' = char

\* deleteChar: the text is laid out again, and the caret is not.
DeleteChar ==
  \/ caretLine = -1 /\ DeleteLast
  \/ caretLine = 0 /\ caretChar = 0 /\ UNCHANGED <<document, caretLine, caretChar>>
  \/ caretLine > 0 /\ caretChar = 0 /\ DeleteBeforeLine(caretLine - 1)
  \/ /\ caretLine >= 0 /\ caretChar > 0
     /\ document' = Layout(FlattenSeq(
                      [document EXCEPT ![caretLine + 1] = Without(@, caretChar - 1)]))
     /\ caretChar' = caretChar - 1 /\ UNCHANGED caretLine

Backspace == visible /\ CaretInText /\ DeleteChar /\ KeepsModifiers /\ Keeps

ClearKey == visible /\ ClearText /\ KeepsModifiers /\ Keeps

\* findEnd finds any character of the line.  The byte with the character's
\* number is looked at to see whether the caret is behind a new line.
ByteAt(line, n) ==
  LET i == CHOOSE i \in 1..Len(line) :
             n <= BytesOf(SubSeq(line, 1, i)) /\ n > BytesOf(SubSeq(line, 1, i - 1))
  IN line[i]

\* setCaret: below the last line is the last line.
SetCaret ==
  /\ visible
  /\ \E line \in 0..Len(document) - 1 : \E char \in 0..Characters(line) :
       /\ caretLine' = line
       /\ caretChar' = IF char > 0 /\ ByteAt(document[line + 1], char) = NL
                       THEN char - 1 ELSE char
  /\ UNCHANGED document /\ KeepsModifiers /\ Keeps

\* editText: setText("") leaves the caret on the first line.
EditText ==
  /\ ~visible /\ visible' = TRUE
  /\ initialText' \in Values /\ multiLine' \in BOOLEAN
  /\ AppendText(<<<<>>>>, 0, 0, initialText') /\ KeepsModifiers

\* applyResult of OK and of Enter for an entry of one line: it takes the text.
Ok ==
  /\ visible /\ visible' = FALSE
  /\ UNCHANGED <<document, caretLine, caretChar, initialText, multiLine>> /\ KeepsModifiers

\* The text is what it was at first.
Cancel ==
  /\ visible /\ visible' = FALSE
  /\ AppendText(<<<<>>>>, -1, -1, initialText)
  /\ KeepsModifiers /\ UNCHANGED <<initialText, multiLine>>

Next ==
  \/ Type \/ Modifier \/ Backspace \/ ClearKey
  \/ SetCaret \/ EditText \/ Ok \/ Cancel

----------------------------------------------------------------------------
\* A word wider than a line less its margin leaves an empty line before it.
BehindEmptyLine == caretLine > 0 /\ caretChar = 0 /\ document[caretLine] = <<>>

\* What is typed comes where the caret was, and the caret behind it; it is the
\* character before the caret that is deleted (none behind an empty line), and
\* no other is ever lost, however the lines break.
EditsAsShown ==
  [][/\ \A s \in {KeyText, <<Space>>, <<NL>>} : Typed(s) /\ caretLine >= 0 =>
          /\ Text' = SubSeq(Text, 1, Place) \o s \o SubSeq(Text, Place + 1, Len(Text))
          /\ CaretInText' /\ Place' = Place + Len(s)
     /\ Backspace /\ caretLine >= 0 =>
          Text' = IF Place = 0 \/ BehindEmptyLine THEN Text ELSE RemoveAt(Text, Place)]_vars
=============================================================================
