------------------------------ MODULE TextArea ------------------------------
(***************************************************************************)
(* How bwt/source/TextArea.cpp breaks a text into lines, with what it uses *)
(* of string_utils.cpp and Font.cpp.  A text is a sequence of characters;  *)
(* TextArea keeps it as the lines, and how far the last of them goes.      *)
(***************************************************************************)
EXTENDS Naturals, Integers, Sequences, SequencesExt

CONSTANTS Advance,    \* the width of each character's glyph
          Bytes,      \* how many bytes it has in UTF-8
          Width       \* width() of an area that is not indented

Space == " "
NL    == "\n"
Blank == {Space, NL}
Margin == 2      \* INITIAL_POSITION

SizeOf(text) == FoldLeft(LAMBDA n, c : n + (IF c = NL THEN 0 ELSE Advance[c]), 0, text)
BytesOf(text) == FoldLeft(LAMBDA n, c : n + Bytes[c], 0, text)

\* nextWordAdvanceWord: up to the first blank, which belongs to the word.
NextWord(text) ==
  LET end == SelectInSeq(text, LAMBDA c : c \in Blank)
  IN IF end = 0 THEN text ELSE SubSeq(text, 1, end)

\* shorterWordFromLong: characters of any kind, as long as they fit.
ShorterWord(text, width) ==
  LET fits(n) == FoldLeft(LAMBDA s, c : s + Advance[c], 0, SubSeq(text, 1, n)) < width
  IN SubSeq(text, 1, CHOOSE n \in 0..Len(text) :
                       /\ \A m \in 1..n : fits(m)
                       /\ n = Len(text) \/ ~fits(n + 1))

Word(text, width) ==
  LET word == NextWord(text)
  IN IF SizeOf(word) > width /\ BytesOf(word) > 1 THEN ShorterWord(text, width - 2) ELSE word

Words(text, width) ==
  LET then(i, word, from) == <<word>> \o from[i + Len(word)]
      from[i \in 1..Len(text) + 1] ==
        IF i > Len(text) THEN <<>> ELSE then(i, Word(SubSeq(text, i, Len(text)), width), from)
  IN from[1]

NewLine(laid) == [lines |-> Append(laid.lines, <<>>), position |-> Margin]

WithWord(laid, word) ==
  [lines |-> [laid.lines EXCEPT ![Len(laid.lines)] = @ \o word],
   position |-> laid.position + SizeOf(word)]

\* A word that does not fit begins a line; a new line that is not parsed is a
\* space.
AppendWord(laid, word, width, parseNewline) ==
  LET wrapped == IF laid.position + SizeOf(word) > width THEN NewLine(laid) ELSE laid
  IN IF Last(word) # NL THEN WithWord(wrapped, word)
     ELSE IF parseNewline THEN NewLine(WithWord(wrapped, word))
     ELSE [WithWord(wrapped, Append(Front(word), Space)) EXCEPT !.position = @ - Advance[Space]]

\* clearText leaves one empty line.
Cleared == [lines |-> <<<<>>>>, position |-> Margin]

\* TextArea::appendText, and layoutText, which parses new lines.
Appended(laid, text, width, parseNewline) ==
  FoldLeft(LAMBDA l, word : AppendWord(l, word, width, parseNewline), laid, Words(text, width))

\* The number of characters in the first lines.
Offset(lines, line) == Len(FlattenSeq(SubSeq(lines, 1, line)))
=============================================================================
