----------------------------- MODULE ViewRender -----------------------------
(***************************************************************************)
(* The page as ViewRender.cpp builds it while it visits the elements: the  *)
(* text areas, and which of them are in the box.  What else is in the box, *)
(* newlines and components, is left out.  HtmlDocument gives a tree, so    *)
(* elements end in the order they began; anchors are not nested.           *)
(***************************************************************************)
EXTENDS RichTextArea

CONSTANTS Hrefs,      \* where anchors lead
          Phrases,    \* texts of elements, and of images
          Step,       \* 16 pixels
          MaxIndent,  \* 144 pixels
          MaxSize,    \* bound: of the characters and links of a page
          MaxAreas,   \* bound: of its areas
          MaxDepth    \* bound: of its nested elements

VARIABLES
  areas,          \* m_richTextAreas
  textArea,       \* m_textArea: which of them, or none
  box,            \* m_box: its areas
  indentation,    \* m_indentation
  pendingNewline, \* m_pendingNewline
  hrefForLink,    \* m_hrefForLink
  hrefViewed,     \* m_hrefViewed
  open,           \* the elements that have begun and not ended
  plain,          \* the document is text/plain
  done            \* the page has been given to the scroll pane

renderVars == <<areas, textArea, box, indentation, pendingNewline, hrefForLink, hrefViewed,
                open, plain, done>>

None == 0

page == [areas |-> areas, textArea |-> textArea, box |-> box, pending |-> pendingNewline,
         href |-> hrefForLink, viewed |-> hrefViewed]

Becomes(p) ==
  /\ areas' = p.areas /\ textArea' = p.textArea /\ box' = p.box /\ pendingNewline' = p.pending
  /\ hrefForLink' = p.href /\ hrefViewed' = p.viewed

\* textArea(): the last area, or a new one, with the newline that it waits for
\* and the link that begins in it.
Linked(p, area) == IF p.href = NoHref THEN area ELSE AddLink(area, p.href, p.viewed)

TextArea(p) ==
  IF p.textArea = None
  THEN [p EXCEPT !.areas = Append(@, Linked(p, NewArea(Width, plain))),
                 !.textArea = Len(p.areas) + 1, !.pending = FALSE]
  ELSE [p EXCEPT !.areas[p.textArea] = Linked(p, IF p.pending THEN InsertNewline(@) ELSE @),
                 !.pending = FALSE]

Current(p) == p.areas[p.textArea]
With(p, area) == [p EXCEPT !.areas[p.textArea] = area]

PushTextArea(p) ==
  TextArea(IF p.textArea = None THEN p ELSE [p EXCEPT !.box = @ \cup {p.textArea}, !.textArea = None])

\* setTextAreaIndentation, of an area without text.
Indented(p, indent) == With(p, [Current(p) EXCEPT !.width = Width - indent])

\* add() of a component that is not text.
AddComponent(p) == [PushTextArea(p) EXCEPT !.pending = FALSE]

Append_(p, text, mark) == With(p, AppendText(Current(p), text, mark))

Written(p, text) == Append_(TextArea(p), text, Mark(hrefForLink, FALSE))

\* m_textArea->insertNewline() and setParseNewline(parse).
Lined(p) == With(p, InsertNewline(Current(p)))
Parsing(p, parse) == With(p, [Current(p) EXCEPT !.parseNewline = parse])

\* visit(HtmlImageElement) when images are not shown: its text, in a link of
\* its own.
ImageEnded(p) == {With(p, area) : area \in EndImage(Current(p))}

ImageText(p, text) ==
  UNION {ImageEnded(Append_(TextArea(With(p, area)), text, Mark(hrefForLink, TRUE))) :
           area \in AddImage(Current(p))}

\* m_textArea->endLink(), where there is one.
LinkEnded(p) ==
  IF p.textArea = None THEN {p} ELSE {With(p, area) : area \in EndLink(Current(p))}

----------------------------------------------------------------------------
Init ==
  /\ areas = <<>> /\ textArea = None /\ box = {} /\ indentation = 0
  /\ pendingNewline = FALSE /\ hrefForLink = NoHref /\ hrefViewed = FALSE
  /\ open = <<>> /\ plain \in BOOLEAN /\ done = FALSE

Size == FoldLeft(LAMBDA n, a : n + Total(a) + Len(a.links), 0, areas)
Room == ~done /\ Size < MaxSize /\ Len(areas) < MaxAreas
Keep == UNCHANGED <<open, plain, done, indentation>>

Text ==
  /\ Room /\ (plain => areas = <<>>)
  /\ \E text \in Phrases : Becomes(Written(page, text))
  /\ Keep

Begins(element) == Room /\ ~plain /\ Len(open) < MaxDepth /\ open' = Append(open, element)
Ends(element) == ~done /\ open # <<>> /\ Last(open) = element /\ open' = Front(open)

Named(p) == With(p, AddLink(Current(p), NoHref, FALSE))

\* An anchor with an address begins its link with its first text.
BeginAnchor ==
  /\ Begins("a") /\ ~\E i \in DOMAIN open : open[i] = "a"
  /\ \/ \E href \in Hrefs, viewed \in BOOLEAN :
          Becomes([page EXCEPT !.href = href, !.viewed = viewed])
     \/ Becomes(Named(TextArea([page EXCEPT !.href = NoHref, !.viewed = FALSE])))
  /\ UNCHANGED <<plain, done, indentation>>

EndAnchor ==
  /\ Ends("a")
  /\ \E p \in LinkEnded(page) : Becomes([p EXCEPT !.href = NoHref])
  /\ UNCHANGED <<plain, done, indentation>>

\* An image ends the link before it, shown or not.
Image ==
  /\ Room /\ ~plain
  /\ \E p \in LinkEnded(page) :
       \/ Becomes(AddComponent(p)) \/ Becomes(p)
       \/ \E text \in Phrases : \E q \in ImageText(TextArea(p), text) : Becomes(q)
  /\ Keep

Break == Room /\ ~plain /\ Becomes(PushTextArea(page)) /\ Keep

\* Inputs and selects.
Control == Room /\ ~plain /\ Becomes(AddComponent(page)) /\ Keep

\* renderTextArea: the last area is forgotten, and not in the box.
TextAreaElement ==
  /\ Room /\ ~plain /\ Becomes(AddComponent([page EXCEPT !.textArea = None])) /\ Keep

\* A paragraph that is not the first element; after a list nothing is indented.
Block ==
  /\ Room /\ ~plain /\ Keep
  /\ \/ Becomes(PushTextArea(page))
     \/ Becomes(Indented(PushTextArea(PushTextArea(page)), indentation))

BeginList ==
  /\ Begins("ul")
  /\ Becomes(page) \/ Becomes(Lined(TextArea(page)))
  /\ indentation' = IF indentation + Step > MaxIndent THEN MaxIndent ELSE indentation + Step
  /\ UNCHANGED <<plain, done>>

\* The bullet is text of its own.
Item ==
  /\ Room /\ open # <<>> /\ Last(open) = "ul"
  /\ Becomes(Written(Indented(PushTextArea(page), indentation), <<"x", Space>>))
  /\ Keep

EndList ==
  /\ Ends("ul")
  /\ indentation' = IF indentation < Step THEN 0 ELSE indentation - Step
  /\ Becomes(Indented(PushTextArea(page), indentation')) /\ UNCHANGED <<plain, done>>

BeginPre == Begins("pre") /\ Becomes(Parsing(TextArea(page), TRUE)) /\ UNCHANGED <<plain, done, indentation>>
EndPre == Ends("pre") /\ Becomes(Parsing(TextArea(page), FALSE)) /\ UNCHANGED <<plain, done, indentation>>

\* insertNewline, of the pages that the browser writes itself.
Newline ==
  /\ Room /\ open = <<>> /\ ~plain
  /\ Becomes([page EXCEPT !.pending = textArea # None])
  /\ Keep

\* done(); the end of a body is a last newline.
Done ==
  /\ ~done /\ open = <<>> /\ done' = TRUE
  /\ \/ Becomes(PushTextArea(page))
     \/ ~plain /\ Becomes(PushTextArea(Lined(TextArea(page))))
  /\ UNCHANGED <<open, plain, indentation>>

Next ==
  \/ Text \/ BeginAnchor \/ EndAnchor \/ Image \/ Break \/ Control \/ TextAreaElement \/ Block
  \/ BeginList \/ Item \/ EndList \/ BeginPre \/ EndPre \/ Newline \/ Done

----------------------------------------------------------------------------
\* The style that a mark asks for.
StyleOf(mark, style) ==
  /\ style.underline <=> mark.href # NoHref
  /\ style.color \in IF mark.image THEN {"image"}
                     ELSE IF mark.href # NoHref THEN {"link", "visited"} ELSE {Black}

StyledFrom(area, styles, text, place) ==
  \A i \in DOMAIN styles :
    text[place + i] \notin Blank => StyleOf(area.marks[place + i], styles[i])

\* Wherever the page is scrolled to, what was written in an anchor is
\* underlined, the text of an image has its colour, and nothing else has, but
\* for areas that were pushed while their last link was open.
PaintedAsMarked ==
  \A n \in DOMAIN areas : areas[n].state = PLAIN =>
    \A skip \in 0..Len(areas[n].lines) - 1 :
      StyledFrom(areas[n], Painted(areas[n], skip), FlattenSeq(areas[n].lines),
                 Offset(areas[n].lines, skip))

LeadsTo(area, link, href) == link # NoLink /\ area.links[link].href = href

\* The touch of a place is taken for another one: at the end of a line but the
\* first, or just behind another link.
Misread(area, line, char) ==
  \/ line > 1 /\ char = Len(area.lines[line]) - 1
  \/ \E l \in Range(area.links) : l.end = Offset(area.lines, line - 1) + char

Touched(area, line, char) == LinkAt(area, PointToCharIndex(area, line, char))

\* However links, images, lines and lists are mixed, what is written in an anchor
\* leads where the anchor leads when it is touched, but for the places that are
\* misread and for areas that were pushed while their last link was open; and
\* what is written outside of anchors leads nowhere.
LinkIsFollowed ==
  done => \A area \in Range(areas) : area.state = PLAIN =>
    \A line \in DOMAIN area.lines : \A char \in 0..Len(area.lines[line]) - 1 :
      LET place == Offset(area.lines, line - 1) + char + 1
      IN area.lines[line][char + 1] \notin Blank /\ ~Misread(area, line, char) =>
           IF area.marks[place].href # NoHref
           THEN LeadsTo(area, Touched(area, line, char), area.marks[place].href)
           ELSE \A href \in Hrefs : ~LeadsTo(area, Touched(area, line, char), href)
=============================================================================
