--------------------------- MODULE RichTextArea ----------------------------
(***************************************************************************)
(* A text area with links: bwt/source/RichTextArea.cpp and Link.cpp.  An   *)
(* area is a record: its lines, the width left to it, the links in order,  *)
(* m_state, and the mark that each of its characters was given with, which *)
(* is not in the code.  Places count from 0, as in the code.               *)
(***************************************************************************)
EXTENDS TextArea

NoHref == ""
Black == "black"
PLAIN == "STATE_PLAIN"
LINK  == "STATE_LINK"
COLOR == "STATE_COLOR"

\* The mark of a character: where its anchor leads, and whether it is the text
\* of an image.
Mark(href, image) == [href |-> href, image |-> image]

Link(href, start, color) == [href |-> href, start |-> start, end |-> 0, color |-> color]

\* Link::eventType.
EventType(link) == IF link.href = NoHref /\ link.color # "link" THEN COLOR ELSE LINK

NewArea(width, parseNewline) ==
  [lines |-> Cleared.lines, position |-> Cleared.position, width |-> width,
   parseNewline |-> parseNewline, links |-> <<>>, state |-> PLAIN, marks |-> <<>>]

\* totalCharacters, which m_documentSize counts.
Total(area) == Len(area.marks)

BlankText(text) == \A i \in DOMAIN text : text[i] \in Blank

\* A third empty text in a row is left out.
LeftOut(area, text) ==
  LET n == Len(area.lines)
  IN n > 1 /\ BlankText(text) /\ BlankText(area.lines[n]) /\ BlankText(area.lines[n - 1])

Relaid(area, laid, marks) ==
  [area EXCEPT !.lines = laid.lines, !.position = laid.position, !.marks = @ \o marks]

AppendText(area, text, mark) ==
  IF LeftOut(area, text) THEN area
  ELSE Relaid(area, Appended(area, text, area.width, area.parseNewline),
              [i \in 1..Len(text) |-> mark])

InsertNewline(area) ==
  [AppendText([area EXCEPT !.parseNewline = TRUE], <<NL>>, Mark(NoHref, FALSE))
     EXCEPT !.parseNewline = area.parseNewline]

AddLink(area, href, visited) ==
  IF area.state = LINK THEN area
  ELSE [area EXCEPT !.links = Append(@, Link(href, Total(area), IF visited THEN "visited" ELSE "link")),
                    !.state = LINK]

EndAt(area, place) ==
  [area EXCEPT !.state = PLAIN, !.links[Len(area.links)].end = place]

\* A blank at the end does not belong to the link.  Behind a new line the
\* byte before the empty line is looked at, whatever it is.
TrimsBlank(area) ==
  LET line == Last(area.lines)
  IN IF line = <<>> THEN BOOLEAN ELSE {Last(line) \in Blank}

EndLink(area) ==
  IF area.state # LINK THEN {area}
  ELSE {EndAt(area, Total(area) - (IF trims THEN 1 ELSE 0)) :
          trims \in IF Total(area) = Last(area.links).start THEN {FALSE} ELSE TrimsBlank(area)}

Colored(area) == [area EXCEPT !.links[Len(area.links)].color = "image"]

\* A link that is ended and begun again.
AddAgain(area) == {AddLink(ended, Last(area.links).href, FALSE) : ended \in EndLink(area)}

AddImage(area) ==
  IF area.state = LINK THEN {Colored(again) : again \in AddAgain(area)}
  ELSE {[area EXCEPT !.links = Append(@, Link(NoHref, Total(area), "image")), !.state = COLOR]}

EndImage(area) ==
  IF area.state = COLOR THEN {EndAt(area, Total(area))}
  ELSE IF area.state = LINK THEN AddAgain(area)
  ELSE {area}

----------------------------------------------------------------------------
(* Painting: a pen with m_currentLink (behind the last one is end()),      *)
(* m_nextEvent, m_nextEventType, the underline and the colour.             *)

\* The event at the start of a link: startUnderline, or the colour.
Enter(area, pen, link) ==
  LET l == area.links[link]
      shown == EventType(l) = COLOR \/ l.href # NoHref
  IN [link |-> link, event |-> l.end, type |-> PLAIN,
      underline |-> EventType(l) = LINK /\ l.href # NoHref,
      color |-> IF shown THEN l.color ELSE pen.color]

\* m_nextEvent is where the link starts.
Await(area, pen, link) ==
  IF link > Len(area.links)
  THEN [pen EXCEPT !.link = link, !.event = Total(area), !.type = PLAIN]
  ELSE [pen EXCEPT !.link = link, !.event = area.links[link].start,
                   !.type = EventType(area.links[link])]

\* The end of a link; links without text at this place are gone through.
EmptyAt(area, link, place) == area.links[link].start = place /\ area.links[link].end = place

NextLink(area, from, place) ==
  CHOOSE n \in from..Len(area.links) + 1 :
    /\ \A m \in from..n - 1 : EmptyAt(area, m, place)
    /\ n <= Len(area.links) => ~EmptyAt(area, n, place)

EnterOrAwait(area, pen, link, place) ==
  IF link <= Len(area.links) /\ area.links[link].start = place
  THEN Enter(area, pen, link) ELSE Await(area, pen, link)

Leave(area, pen, place) ==
  EnterOrAwait(area, [pen EXCEPT !.underline = FALSE, !.color = Black],
               NextLink(area, pen.link + 1, place), place)

HandleNextEvent(area, pen, place) ==
  IF pen.type = PLAIN \/ area.links[pen.link].end = area.links[pen.link].start
  THEN Leave(area, pen, place) ELSE Enter(area, pen, pen.link)

\* printu, for one character; the styles of all of them are kept.
Draw(styles, pen) ==
  [pen |-> pen, styles |-> Append(styles, [underline |-> pen.underline, color |-> pen.color])]

PaintOne(area, painted, place) ==
  Draw(painted.styles, IF painted.pen.event = place
                       THEN HandleNextEvent(area, painted.pen, place) ELSE painted.pen)

FirstPen(area) ==
  Await(area, [link |-> 1, event |-> 0, type |-> PLAIN, underline |-> FALSE, color |-> Black], 1)

\* checkSkippedLines: the first link that holds the place, or starts behind it.
Holds(link, place) == link.start <= place /\ place <= link.end

Resumed(area, n, place) ==
  IF n = 0 THEN Await(area, FirstPen(area), Len(area.links) + 1)
  ELSE IF Holds(area.links[n], place) THEN HandleNextEvent(area, Await(area, FirstPen(area), n), place)
  ELSE Await(area, FirstPen(area), n)

\* Mutant: the lines above are not looked at.
SkippedAsFirst(area, place) == FirstPen(area)

Skipped(area, place) ==
  Resumed(area, SelectInSeq(area.links, LAMBDA l : Holds(l, place) \/ place <= l.start), place)

\* paint from a place on: the styles of the characters.
PaintedFrom(area, pen, place) ==
  FoldLeft(LAMBDA p, i : PaintOne(area, p, i), [pen |-> pen, styles |-> <<>>],
           [i \in 1..Total(area) - place |-> place + i - 1]).styles

\* The lines above the clip rectangle are skipped.
Painted(area, skip) ==
  IF skip = 0 THEN PaintedFrom(area, FirstPen(area), 0)
  ELSE PaintedFrom(area, Skipped(area, Offset(area.lines, skip)), Offset(area.lines, skip))

----------------------------------------------------------------------------
\* Mutant: the lines before are never counted.
CharInLine(area, line, char) == char

\* pointToCharIndex: findEnd is at the end of the line on its last character,
\* and then the lines before it are not counted.
PointToCharIndex(area, line, char) ==
  IF char >= Len(area.lines[line]) - 1 THEN char ELSE Offset(area.lines, line - 1) + char

NoLink == 0
LinkAt(area, index) ==
  SelectInSeq(area.links, LAMBDA l : l.start <= index /\ index <= l.end)
=============================================================================
