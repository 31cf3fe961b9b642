------------------------------ MODULE MCScreen ------------------------------
(***************************************************************************)
(* What the user sees and does: the keyboard and its text, the text areas  *)
(* that ViewRender makes of a page, where they are on the screen, what the *)
(* icons, keys and links do, and how the icons look.  Each is checked      *)
(* alone: the others stay in one of their initial states.                  *)
(***************************************************************************)
EXTENDS Interface, PageLayout, Toolbars

VARIABLES
  document, caretLine, caretChar, visible, extra, shift, capsLock, initialText, multiLine,
  areas, textArea, box, indentation, pendingNewline, hrefForLink, hrefViewed, open, plain, done,
  part           \* which of the five runs

----------------------------------------------------------------------------
(* The editor: a character of one byte and of two, a narrow and a wide one, *)
(* and a word that is wider than a line                                     *)

EditorAdvance == [c \in {"a", "A", "e", " "} |-> IF c = "A" THEN 2 ELSE 1]
EditorBytes == [c \in {"a", "A", "e", " ", "\n"} |-> IF c = "e" THEN 2 ELSE 1]
EditorChars == [k \in [extra : BOOLEAN, caps : BOOLEAN] |-> IF k.extra THEN "e" ELSE IF k.caps THEN "A" ELSE "a"]

Editor == INSTANCE TextEditor WITH Advance <- EditorAdvance, Bytes <- EditorBytes, Width <- 5,
            Chars <- EditorChars, Values <- {<<>>, <<"A", "A", " ", "A">>}, MaxLength <- 3

----------------------------------------------------------------------------
(* Pages of two areas, which break after two characters                    *)

RenderAdvance == [c \in {"x", " "} |-> 1]
RenderBytes == [c \in {"x", " ", "\n"} |-> 1]

Rendering == INSTANCE ViewRender WITH Advance <- RenderAdvance, Bytes <- RenderBytes, Width <- 4,
            Hrefs <- {"a"}, Phrases <- {<<"x">>, <<"x", "\n">>}, Step <- 1, MaxIndent <- 1,
            MaxSize <- 5, MaxAreas <- 2, MaxDepth <- 1

----------------------------------------------------------------------------
(* Pages shorter and longer than the screens, with images in their rows    *)

Sized(w, h, indent, image) == [newline |-> FALSE, w |-> w, h |-> h, indent |-> indent, image |-> image]
Word == Sized(3, 2, -1, FALSE)
Item == Sized(7, 4, 2, FALSE)
PieceOfImage == Sized(0, 0, -1, TRUE)
Break == [newline |-> TRUE]

MCPageParts == {<<PieceOfImage, Word, Item>>, <<Word, Break, PieceOfImage, PieceOfImage>>}
MCImages == {[w |-> 4, h |-> 3], [w |-> 9, h |-> 7]}

----------------------------------------------------------------------------
(* The first page, and the load of one behind it                           *)

FirstPage == [loading |-> FALSE, previous |-> FALSE, next |-> TRUE]
NextPage == [loading |-> TRUE, previous |-> TRUE, next |-> FALSE]

MCDocuments == {FirstPage, NextPage}

----------------------------------------------------------------------------

editorVars == <<document, caretLine, caretChar, visible, extra, shift, capsLock, initialText, multiLine>>
renderVars == <<areas, textArea, box, indentation, pendingNewline, hrefForLink, hrefViewed, open, plain, done>>

\* A part that is not run is in one state.
ScreenInit ==
  /\ part \in {"editor", "render", "layout", "user", "bars"}
  /\ Editor!Init /\ Rendering!Init /\ LayoutInit /\ Init /\ BarsInit
  /\ part # "render" => plain
  /\ part # "layout" => title = 0 /\ parts[1] = PieceOfImage
  /\ part # "user" => ui.shown = "a"
  /\ part # "bars" => doc = FirstPage /\ wifi = "CONNECTED"

ScreenNext ==
  \/ part = "editor" /\ Editor!Next /\ UNCHANGED <<part, renderVars, layoutVars, vars, barVars>>
  \/ part = "render" /\ Rendering!Next /\ UNCHANGED <<part, editorVars, layoutVars, vars, barVars>>
  \/ part = "layout" /\ LayoutNext /\ UNCHANGED <<part, editorVars, renderVars, vars, barVars>>
  \/ part = "user" /\ Next /\ UNCHANGED <<part, editorVars, renderVars, layoutVars, barVars>>
  \/ part = "bars" /\ BarsNext /\ UNCHANGED <<part, editorVars, renderVars, layoutVars, vars>>

ScreenSpec == ScreenInit /\ [][ScreenNext]_<<part, editorVars, renderVars, layoutVars, vars, barVars>>

----------------------------------------------------------------------------
(* Properties of the two that are instances                                *)

\* Typing and deleting change the text at the caret, and nowhere else.
EditsAsShown == Editor!EditsAsShown

\* What was written in an anchor is painted as a link, wherever the page is.
PaintedAsMarked == Rendering!PaintedAsMarked

\* A touched link leads where its anchor leads.
LinkIsFollowed == Rendering!LinkIsFollowed
=============================================================================
