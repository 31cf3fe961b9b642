----------------------------- MODULE PageLayout -----------------------------
(***************************************************************************)
(* Where a page is on the screen: BoxLayout, which puts its components in  *)
(* rows, the top level ScrollPane with its ScrollBar, the images that      *)
(* change size while they arrive (ImageComponent), and the part of View    *)
(* that scrolls, keeps the place in the document and paints.  Pixels are   *)
(* counted from the top of the upper screen; the page begins on the lower. *)
(***************************************************************************)
EXTENDS Naturals, Integers, Sequences, SequencesExt

CONSTANTS
  PageParts,     \* what ViewRender may give to m_box: components and new lines
  Images,        \* sizes that an image may turn out to have
  Titles,        \* heights of titles; 0 for a page without one
  BoxWidth,      \* 249: the pane without its scroll bar
  Screen,        \* 192: the height of one screen
  Padding,       \* 2: MIN_PADDING
  Arrow,         \* 10: ARROW_HEIGHT
  MinHandle,     \* 5: MIN_HANDLE_SIZE
  Increment,     \* 20: m_scrollIncrement
  Whole          \* 256: scrollToPercent of the bottom

VARIABLES
  parts,     \* the components of m_box, as they want to be
  boxes,     \* m_boxes, where they are: oldest first, from the top of m_box
  title,     \* the height of the component above m_box, or 0
  top,       \* where the first child is
  boxY,      \* where m_box is
  rendered,  \* the page has been given to the pane
  canUp, canDown,      \* m_canScrollUp, m_canScrollDown
  total, value, held,  \* of the scroll bar; its handle is held
  dirty, distance,     \* m_dirty and m_distanceScrolled of the pane
  viewDirty,           \* m_dirty of the View
  position,            \* of the document; -1 when it is to be at the top
  shown                \* the screen shows the page where it is

layoutVars == <<parts, boxes, title, top, boxY, rendered, canUp, canDown, total, value, held,
                dirty, distance, viewDirty, position, shown>>

NoIndent == -1
Newline  == [newline |-> TRUE]

\* A component, as it wants to be; ViewRender indents by less than the width.
Piece == [newline : {FALSE}, w : Nat, h : Nat, indent : -1..BoxWidth, image : BOOLEAN]

ASSUME LayoutAssumption ==
  /\ PageParts \subseteq Seq(Piece \cup {Newline}) /\ Images \subseteq [w : Nat, h : Nat]
  /\ Titles \subseteq Nat /\ BoxWidth \in Nat /\ Padding \in Nat /\ Arrow \in Nat
  /\ MinHandle \in Nat /\ Increment \in Nat /\ Screen \in Nat /\ Whole \in Nat \ {0}
  /\ 2 * Arrow < Screen

Smaller(a, b) == IF a < b THEN a ELSE b
Larger(a, b) == IF a < b THEN b ELSE a

----------------------------------------------------------------------------
(* BoxLayout *)

Bottom(b) == b.y + b.h

\* m_bounds.h
Limit(h, b) == Larger(h, Bottom(b))
Height(bs)  == FoldLeft(Limit, 0, bs)

\* Mutant: a row begins under the last component, not under all of them.
HeightOfLast(bs) == IF bs = <<>> THEN 0 ELSE Bottom(Last(bs))

NewRow(bs) == Height(bs)

\* No wider than the layout; an indented one may be, by its indentation.
FittingWidth(c) ==
  IF c.indent = NoIndent THEN Smaller(c.w, BoxWidth)
  ELSE IF c.w > BoxWidth + c.indent THEN BoxWidth - c.indent ELSE c.w

\* To the right of the last component, or in a new row.
Beside(bs) ==
  IF bs = <<>> THEN [x |-> 0, y |-> 0, end |-> FALSE]
  ELSE [x |-> Last(bs).x + Last(bs).w, y |-> Last(bs).y, end |-> Last(bs).end]

Placed(bs, c, w, beside) ==
  IF ~beside.end /\ c.indent = NoIndent /\ w + beside.x < BoxWidth
  THEN [x |-> beside.x, y |-> beside.y, w |-> w, h |-> c.h, end |-> FALSE]
  ELSE [x |-> c.indent, y |-> NewRow(bs), w |-> w, h |-> c.h, end |-> FALSE]

AddToLayout(bs, c) == Append(bs, Placed(bs, c, FittingWidth(c), Beside(bs)))

\* insertNewline
ForcedEnd(bs) == IF bs = <<>> THEN bs ELSE [bs EXCEPT ![Len(bs)].end = TRUE]

\* doLayout: the ends come from the list of boxes, which has the last one first.
Relaid(bs, box) ==
  LET added == AddToLayout(bs, box.part) IN IF box.end THEN ForcedEnd(added) ELSE added

DoLayout(cs, bs) ==
  FoldLeft(Relaid, <<>>, [i \in 1..Len(cs) |-> [part |-> cs[i], end |-> bs[Len(bs) + 1 - i].end]])

----------------------------------------------------------------------------
(* ScrollPane: an operation takes the pane and gives the pane after it *)

pane == [top |-> top, boxY |-> boxY, canUp |-> canUp, canDown |-> canDown, total |-> total,
         value |-> value, held |-> held, dirty |-> dirty, distance |-> distance]

Becomes(p) ==
  /\ top' = p.top /\ boxY' = p.boxY /\ canUp' = p.canUp /\ canDown' = p.canDown
  /\ total' = p.total /\ value' = p.value /\ held' = p.held
  /\ dirty' = p.dirty /\ distance' = p.distance

\* The bottom of the last child, which is m_box.
Floor(p) == p.boxY + Height(boxes)

\* layoutChildren: the box goes under the title.
LayoutChildren(p) == IF title = 0 THEN p ELSE [p EXCEPT !.boxY = p.top + title + Padding]

CalculateScrollBar(p) ==
  [p EXCEPT !.total = Floor(p) - p.top, !.value = Screen - p.top,
            !.canUp = p.top < Screen, !.canDown = Floor(p) > 2 * Screen, !.dirty = TRUE]

SetSize(p) == CalculateScrollBar(LayoutChildren(p))

VisibleRange == Screen - 2 * Arrow

CurrentPosition(p) ==
  IF p.total > VisibleRange THEN (Whole * p.value) \div (p.total - VisibleRange) ELSE 0

\* All the children go up by dy.
Moved(p, dy) == CalculateScrollBar([p EXCEPT !.top = @ - dy, !.boxY = @ - dy])

\* Mutant: the page may be scrolled off the screen.
UnadjustedScroll(p, dy) == dy

\* adjustScroll: no further than the bottom, of a page that does not fit.
AdjustScroll(p, dy) ==
  IF Floor(p) >= 2 * Screen /\ Floor(p) - dy < 2 * Screen THEN Floor(p) - 2 * Screen ELSE dy

AdjustScrollUp(p, dy) == Smaller(dy, Screen - p.top)

Scrolled(p, dy) == [Moved(p, dy) EXCEPT !.distance = dy]

Up(p, by) == IF p.canUp THEN Scrolled(p, -AdjustScrollUp(p, by)) ELSE p

\* Mutant: the distance is what was asked for.
DownAsAsked(p, by) ==
  IF p.canDown THEN [Moved(p, AdjustScroll(p, by)) EXCEPT !.distance = by] ELSE p

Down(p, by) == IF p.canDown THEN Scrolled(p, AdjustScroll(p, by)) ELSE p

PageIncrement  == (2 * Screen - (2 * Screen) \div 16) \div 2
BlockIncrement == Larger(Increment, Screen)

\* scrollToPercent
PercentY(p, i) ==
  IF p.total > VisibleRange THEN ((p.total - VisibleRange) * Larger(i, 0)) \div Whole ELSE 0

ScrollToPercent(p, i) == Moved(p, AdjustScroll(p, p.top - Screen + PercentY(p, i)))

----------------------------------------------------------------------------
(* ScrollBar: a touch at y, which counts from the top of the bar *)

IsScrollBarShowing(p) == Screen < p.total

\* calculateHandle
HandleSize(p) == Larger(MinHandle, (VisibleRange * VisibleRange) \div p.total)
HandlePosition(p) ==
  Smaller(Arrow + Larger(0, (p.value * (VisibleRange - HandleSize(p))) \div (p.total - Screen)),
          Screen - Arrow - HandleSize(p))
HitHandle(p, y) == y >= HandlePosition(p) /\ y < HandlePosition(p) + HandleSize(p)

Release(p) == [p EXCEPT !.held = FALSE]

DoScroll(p, y) ==
  CASE y < Arrow              -> Release(Up(p, Increment))
    [] y > Screen - Arrow     -> Release(Down(p, Increment))
    [] OTHER -> IF p.held THEN ScrollToPercent(p, ((y - Arrow) * Whole) \div VisibleRange)
                ELSE IF HitHandle(p, y) THEN [p EXCEPT !.held = TRUE]
                ELSE IF y < HandlePosition(p) THEN Release(Up(p, BlockIncrement))
                ELSE Release(Down(p, BlockIncrement))

----------------------------------------------------------------------------
\* ViewRender gives m_box a component, or ends a line of it.
Given(bs, item) == IF item.newline THEN ForcedEnd(bs) ELSE AddToLayout(bs, item)
Owned(ps, item) == IF item.newline THEN ps ELSE Append(ps, item)

LayoutInit ==
  /\ \E page \in PageParts :
       /\ parts = FoldLeft(Owned, <<>>, page)
       /\ boxes = FoldLeft(Given, <<>>, page)
  /\ title \in Titles /\ top = 0 /\ boxY = 0
  /\ rendered = FALSE /\ canUp = FALSE /\ canDown = FALSE /\ total = 0 /\ value = 0
  /\ held = FALSE /\ dirty = FALSE /\ distance = 0 /\ viewDirty = FALSE /\ position = -1
  /\ shown = FALSE

Page == <<parts, boxes, title>>

\* resetScroller, and then View::notify of LOADED_HTML: the place of the document,
\* or of an internal link.
Reset(p) == ScrollToPercent(SetSize(SetSize(p)), 0)
PlaceAt(p, at) == ScrollToPercent(Reset(p), at)

Display(at) ==
  /\ Becomes(PlaceAt([pane EXCEPT !.top = 0, !.boxY = 0], at))
  /\ rendered' = TRUE /\ viewDirty' = TRUE /\ shown' = FALSE

\* A page that is rendered for the first time may be so for an internal link.
Render ==
  /\ \E at \in IF position = -1 /\ ~rendered THEN {-1, Whole \div 2} ELSE {position} : Display(at)
  /\ UNCHANGED <<Page, position>>

\* ImageComponent::notify, when the size of an image is known, or that it is none:
\* the box is laid out from the top of the screens.  Of LOADED_ITEM the pane hears
\* first.
Arrived(p) == [p EXCEPT !.boxY = 0, !.top = IF title = 0 THEN 0 ELSE @]

ImageArrives ==
  /\ rendered
  /\ \E i \in DOMAIN parts, size \in Images :
       /\ parts[i].image
       /\ parts' = [parts EXCEPT ![i] = [@ EXCEPT !.w = size.w, !.h = size.h, !.image = FALSE]]
       /\ boxes' = DoLayout(parts', boxes)
  /\ Becomes(Arrived(pane)) \/ Becomes(Arrived(SetSize(pane)))
  /\ shown' = FALSE
  /\ UNCHANGED <<title, rendered, viewDirty, position>>

\* ViewRender::notify of LOADED_ITEM.
ItemLoaded ==
  /\ rendered /\ Becomes(SetSize(pane))
  /\ shown' = (shown /\ boxY' = boxY)
  /\ UNCHANGED <<Page, rendered, viewDirty, position>>

\* View::notify of INPROGRESS of a page.
Progress ==
  /\ rendered /\ Becomes([pane EXCEPT !.dirty = TRUE, !.distance = 0])
  /\ UNCHANGED <<Page, rendered, viewDirty, position, shown>>

----------------------------------------------------------------------------
(* View::tick, of a frame in which the page is scrolled once at most *)

\* A bar that does not show is touched all the same; where its handle was then,
\* another page has decided.
BarTouches(p, y) ==
  IF IsScrollBarShowing(p) THEN {DoScroll(p, y)}
  ELSE {Release(p), [p EXCEPT !.held = TRUE]}
       \cup (IF p.held THEN {DoScroll(p, y)} ELSE {})

\* What the stylus does: the bar, or the page is dragged (anywhereScroll).
Scrolls(p) ==
  (UNION {BarTouches(p, y) : y \in 0..Screen - 1})
  \cup (IF IsScrollBarShowing(p) THEN {Up(p, 1), Down(p, 1)} ELSE {Release(p)})

Touches(p) == Scrolls(p) \cup {[q EXCEPT !.dirty = TRUE] : q \in Scrolls(p)}

KeyScrolls(p) == {p, Down(p, Increment), Up(p, Increment), Down(p, PageIncrement), Up(p, PageIncrement)}

\* The place is kept when the stylus is used, or something else is to be painted.
Kept(p, touched) ==
  IF (IF touched THEN p.dirty ELSE viewDirty) THEN CurrentPosition(p) ELSE position

\* paint: all of the page, or what a copy of the screen leaves.
Paints(p) ==
  /\ shown' = IF ~p.dirty THEN shown
              ELSE p.distance = 0 \/ (shown /\ top - p.top = p.distance)
  /\ Becomes([p EXCEPT !.dirty = FALSE, !.distance = IF p.dirty THEN 0 ELSE @])
  /\ viewDirty' = FALSE

ViewTick ==
  /\ rendered
  /\ \/ \E p \in KeyScrolls(pane) : Paints(p) /\ position' = Kept(p, FALSE)
     \/ \E p \in Touches(pane) : Paints(p) /\ position' = Kept(p, TRUE)
  /\ UNCHANGED <<Page, rendered>>

LayoutNext ==
  Render \/ ImageArrives \/ ItemLoaded \/ Progress \/ ViewTick

LayoutSpec == LayoutInit /\ [][LayoutNext]_layoutVars

----------------------------------------------------------------------------
\* However images change their sizes, what comes later on a page is to the right,
\* or below, of all that comes before it in its row, and nothing covers another.
\* (A component that begins a row may begin one pixel to the left.)
Before(a, b) == a.y = b.y /\ a.x + a.w <= b.x
Above(a, b) == a.y < b.y /\ Bottom(a) <= b.y

InReadingOrder ==
  \A i, j \in DOMAIN boxes : i < j => Before(boxes[i], boxes[j]) \/ Above(boxes[i], boxes[j])
                                      \/ boxes[i].h = 0

\* A frame in which the page is scrolled once leaves the screen as if all of it
\* were painted, when it was so before.
ScreenShowsPage == [][shown /\ ~shown' => ~ViewTick]_layoutVars

\* A page that is longer than the screen fills it: the box is under the title, the
\* scroll bar knows where they are, and no part of the screen is left empty.
Inside ==
  /\ title = 0 \/ boxY = top + title + Padding
  /\ total > Screen /\ value = Screen - top /\ total = Floor(pane) - top
  /\ top <= Screen /\ Floor(pane) >= 2 * Screen

\* As long as no image changes its size, nothing takes a long page off the screen,
\* and when it is rendered again the place that was kept is found again, but for
\* what rounding loses.
PlaceIsKept ==
  [][ Inside /\ UNCHANGED parts =>
        /\ Inside'
        /\ position = CurrentPosition(pane) /\ Render =>
             top' - top \in 0..total \div Whole + 1 ]_layoutVars
=============================================================================
