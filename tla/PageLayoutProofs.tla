-------------------------- MODULE PageLayoutProofs --------------------------
(***************************************************************************)
(* Proofs about PageLayout: the rows stay in reading order, scrolling paints *)
(* all of the screen, and the place in a long page is kept.  The lemmas go *)
(* from what a box and a row are (first part), through what an operation on *)
(* the pane makes of it (second part), to the steps (third part).          *)
(***************************************************************************)
EXTENDS PageLayout, TLAPS

Heights == INSTANCE FoldTheorems WITH Op <- Limit
Layouts == INSTANCE FoldTheorems WITH Op <- Given
Owners  == INSTANCE FoldTheorems WITH Op <- Owned
Relays  == INSTANCE FoldTheorems WITH Op <- Relaid

Boxes == [x : Int, y : Nat, w : Nat, h : Nat, end : BOOLEAN]

\* The last box is beyond a: below it, in its row, or a takes no room.
Passed(a, last) ==
  a.h = 0 \/ Bottom(a) <= last.y \/ (a.y = last.y /\ a.x + a.w <= last.x + last.w)

Ordered(bs) ==
  /\ \A i, j \in DOMAIN bs : i < j => Before(bs[i], bs[j]) \/ Above(bs[i], bs[j]) \/ bs[i].h = 0
  /\ \A i \in DOMAIN bs : Passed(bs[i], bs[Len(bs)])

SoundLayouts == {bs \in Seq(Boxes) : Ordered(bs)}

----------------------------------------------------------------------------
\* The fields of a box and of a component, as integers.
LEMMA BoxFields ==
  ASSUME NEW b \in Boxes
  PROVE  b.x \in Int /\ b.y \in Nat /\ b.w \in Nat /\ b.h \in Nat /\ Bottom(b) \in Nat
<1>1. b.x \in Int /\ b.y \in Nat /\ b.w \in Nat /\ b.h \in Nat
  BY DEF Boxes
<1> QED BY <1>1 DEF Bottom

LEMMA PieceFields ==
  ASSUME NEW c \in Piece
  PROVE  c.w \in Nat /\ c.h \in Nat /\ c.indent \in -1..BoxWidth /\ c.indent \in Int
<1>1. c.w \in Nat /\ c.h \in Nat /\ c.indent \in -1..BoxWidth
  BY DEF Piece
<1>2. BoxWidth \in Nat
  BY LayoutAssumption
<1> QED BY <1>1, <1>2

\* No box goes below the height of the layout.
LEMMA HeightIsLimit ==
  ASSUME NEW bs \in Seq(Boxes)
  PROVE  Height(bs) \in Nat /\ \A i \in DOMAIN bs : Bottom(bs[i]) <= Height(bs)
<1> DEFINE Good == [k \in 0 .. Len(bs) |-> {h \in Nat : \A i \in 1 .. k : Bottom(bs[i]) <= h}]
<1>1. Height(bs) = Heights!Folded(0, bs)
  BY DEF Height, FoldLeft, MapThenFoldSet, Max,
         Heights!Folded, Heights!FoldLeft, Heights!MapThenFoldSet, Heights!Max
<1>2. 0 \in Good[0]
  OBVIOUS
<1>3. ASSUME NEW k \in 1 .. Len(bs), NEW a \in Good[k - 1]
      PROVE  Limit(a, bs[k]) \in Good[k]
  <2>1. k - 1 \in 0 .. Len(bs) /\ k \in 0 .. Len(bs) /\ k \in Nat
    OBVIOUS
  <2>2. a \in Nat /\ \A i \in 1 .. k - 1 : Bottom(bs[i]) <= a
    BY <1>3, <2>1
  <2>3. \A i \in 1 .. k : Bottom(bs[i]) \in Nat
    <3>1. \A i \in 1 .. k : bs[i] \in Boxes
      BY <2>1
    <3> QED BY <3>1, BoxFields
  <2>4. Limit(a, bs[k]) \in Nat /\ a <= Limit(a, bs[k]) /\ Bottom(bs[k]) <= Limit(a, bs[k])
    BY <2>1, <2>2, <2>3 DEF Limit, Larger
  <2>5. \A i \in 1 .. k : Bottom(bs[i]) <= Limit(a, bs[k])
    BY <2>1, <2>2, <2>3, <2>4
  <2> QED BY <2>1, <2>4, <2>5
<1> HIDE DEF Good
<1>4. Heights!Folded(0, bs) \in Good[Len(bs)]
  BY <1>2, <1>3, Heights!FoldStaysGood
<1> QED BY <1>1, <1>4 DEF Good

\* FittingWidth gives a width.
LEMMA WidthFits ==
  ASSUME NEW c \in Piece
  PROVE  FittingWidth(c) \in Nat
<1>1. c.w \in Nat /\ c.indent \in -1..BoxWidth /\ BoxWidth \in Nat
  BY LayoutAssumption, PieceFields
<1>2. c.indent = -1 \/ c.indent \in 0..BoxWidth
  BY <1>1
<1> QED BY <1>1, <1>2 DEF FittingWidth, Smaller, NoIndent

\* The new box is placed to the right of or below all.
LEMMA AddKeepsOrder ==
  ASSUME NEW bs \in SoundLayouts, NEW c \in Piece
  PROVE  AddToLayout(bs, c) \in SoundLayouts
<1> DEFINE w == FittingWidth(c)
           n == Placed(bs, c, w, Beside(bs))
           new == AddToLayout(bs, c)
<1>1. bs \in Seq(Boxes) /\ Ordered(bs)
  BY DEF SoundLayouts
<1>2. w \in Nat /\ c.h \in Nat /\ c.indent \in Int
  BY WidthFits, PieceFields
<1>3. NewRow(bs) \in Nat /\ \A i \in DOMAIN bs : Bottom(bs[i]) <= NewRow(bs)
  BY <1>1, HeightIsLimit DEF NewRow
<1>4. bs # <<>> => Len(bs) \in DOMAIN bs /\ Last(bs) = bs[Len(bs)] /\ bs[Len(bs)] \in Boxes
  BY <1>1 DEF Last
<1>5. Beside(bs).x \in Int /\ Beside(bs).y \in Nat
  BY <1>4 DEF Beside, Boxes
<1>6. /\ n \in Boxes /\ n.w = w
      /\ (n.x = Beside(bs).x /\ n.y = Beside(bs).y) \/ n.y = NewRow(bs)
  BY <1>2, <1>3, <1>5 DEF Placed, Boxes
<1>7. new = Append(bs, n) /\ new \in Seq(Boxes) /\ Len(new) = Len(bs) + 1 /\ new[Len(new)] = n
      /\ DOMAIN new = 1 .. Len(bs) + 1 /\ \A i \in DOMAIN bs : new[i] = bs[i]
  BY <1>1, <1>6 DEF AddToLayout
<1> HIDE DEF new, n, w
<1>8. ASSUME NEW i \in DOMAIN bs
      PROVE  (Before(bs[i], n) \/ Above(bs[i], n) \/ bs[i].h = 0) /\ Passed(bs[i], n)
  <2>1. bs[i] \in Boxes /\ bs # <<>>
    BY <1>1
  <2>2. Passed(bs[i], bs[Len(bs)])
    BY <1>1, <1>8 DEF Ordered
  <2>3. CASE n.y = Beside(bs).y /\ n.x = Beside(bs).x
    <3>1. n.y = bs[Len(bs)].y /\ n.x = bs[Len(bs)].x + bs[Len(bs)].w /\ bs[Len(bs)] \in Boxes
      BY <2>1, <2>3, <1>4 DEF Beside
    <3>2. /\ bs[i].x \in Int /\ bs[i].y \in Nat /\ bs[i].w \in Nat /\ bs[i].h \in Nat
          /\ bs[Len(bs)].x \in Int /\ bs[Len(bs)].y \in Nat /\ bs[Len(bs)].w \in Nat
          /\ n.x \in Int /\ n.y \in Nat /\ n.w \in Nat
      BY <2>1, <3>1, <1>6, BoxFields
    <3>3. CASE bs[i].h = 0
      BY <3>3 DEF Passed
    <3>4. CASE bs[i].h # 0 /\ Bottom(bs[i]) <= bs[Len(bs)].y
      BY <3>1, <3>2, <3>4 DEF Passed, Above, Bottom
    <3>5. CASE bs[i].y = bs[Len(bs)].y /\ bs[i].x + bs[i].w <= bs[Len(bs)].x + bs[Len(bs)].w
      BY <3>1, <3>2, <3>5 DEF Passed, Before
    <3> QED BY <2>2, <3>3, <3>4, <3>5 DEF Passed
  <2>4. CASE n.y = NewRow(bs)
    BY <2>1, <2>4, <1>3, <1>6 DEF Passed, Before, Above, Bottom, Boxes
  <2> QED BY <2>3, <2>4, <1>6
<1>9. Ordered(new)
  <2>1. ASSUME NEW i \in DOMAIN new, NEW j \in DOMAIN new, i < j
        PROVE  Before(new[i], new[j]) \/ Above(new[i], new[j]) \/ new[i].h = 0
    <3>1. i \in DOMAIN bs
      BY <1>1, <1>7, <2>1
    <3>2. CASE j \in DOMAIN bs
      BY <3>1, <3>2, <2>1, <1>1, <1>7 DEF Ordered
    <3>3. CASE j = Len(bs) + 1
      BY <3>1, <3>3, <1>7, <1>8
    <3> QED BY <3>2, <3>3, <1>1, <1>7
  <2>2. Passed(n, n)
    BY <1>6 DEF Passed, Boxes
  <2>3. ASSUME NEW i \in DOMAIN new PROVE Passed(new[i], new[Len(new)])
    BY <2>2, <1>1, <1>7, <1>8
  <2> QED BY <2>1, <2>3 DEF Ordered
<1> QED BY <1>7, <1>9 DEF SoundLayouts, new

\* A forced end of a line moves nothing.
LEMMA EndKeepsOrder ==
  ASSUME NEW bs \in SoundLayouts
  PROVE  ForcedEnd(bs) \in SoundLayouts
<1>1. bs \in Seq(Boxes) /\ Ordered(bs)
  BY DEF SoundLayouts
<1>2. CASE bs = <<>>
  BY <1>2 DEF ForcedEnd
<1>3. CASE bs # <<>>
  <2> DEFINE new == [bs EXCEPT ![Len(bs)].end = TRUE]
  <2>1. Len(bs) \in DOMAIN bs /\ bs[Len(bs)] \in Boxes
    BY <1>1, <1>3
  <2>2. [bs[Len(bs)] EXCEPT !.end = TRUE] \in Boxes
    BY <2>1 DEF Boxes
  <2>3. new \in Seq(Boxes) /\ Len(new) = Len(bs) /\ DOMAIN new = DOMAIN bs
    BY <1>1, <2>1, <2>2
  <2>4. ASSUME NEW i \in DOMAIN bs
        PROVE  /\ new[i].x = bs[i].x /\ new[i].y = bs[i].y
               /\ new[i].w = bs[i].w /\ new[i].h = bs[i].h
    <3>1. bs[i] \in Boxes
      BY <1>1
    <3> QED BY <3>1, <2>1, <1>1 DEF Boxes
  <2> HIDE DEF new
  <2>5. Ordered(new)
    BY <1>1, <2>1, <2>3, <2>4 DEF Ordered, Before, Above, Bottom, Passed
  <2> QED BY <1>3, <2>3, <2>5 DEF ForcedEnd, SoundLayouts, new
<1> QED BY <1>2, <1>3

\* A page without components is in order.
LEMMA EmptyIsSound == <<>> \in SoundLayouts
BY DEF SoundLayouts, Ordered

\* The page as ViewRender gives it, whatever it is, is in order.
LEMMA GivenIsSound ==
  ASSUME NEW page \in Seq(Piece \cup {Newline})
  PROVE  FoldLeft(Given, <<>>, page) \in SoundLayouts
<1> DEFINE Good == [k \in 0 .. Len(page) |-> SoundLayouts]
<1>1. FoldLeft(Given, <<>>, page) = Layouts!Folded(<<>>, page)
  BY DEF FoldLeft, MapThenFoldSet, Max,
         Layouts!Folded, Layouts!FoldLeft, Layouts!MapThenFoldSet, Layouts!Max
<1>2. <<>> \in Good[0]
  BY EmptyIsSound
<1>3. ASSUME NEW k \in 1 .. Len(page), NEW a \in Good[k - 1]
      PROVE  Given(a, page[k]) \in Good[k]
  <2>1. a \in SoundLayouts /\ page[k] \in Piece \cup {Newline}
    OBVIOUS
  <2>2. page[k] \in Piece => ~page[k].newline
    BY DEF Piece
  <2>3. page[k] = Newline => page[k].newline
    BY DEF Newline
  <2>4. Given(a, page[k]) \in SoundLayouts
    BY <2>1, <2>2, <2>3, AddKeepsOrder, EndKeepsOrder DEF Given
  <2> QED BY <2>4
<1> HIDE DEF Good
<1>4. Layouts!Folded(<<>>, page) \in Good[Len(page)]
  BY <1>2, <1>3, Layouts!FoldStaysGood
<1> QED BY <1>1, <1>4 DEF Good

\* What m_box owns of it are components.
LEMMA OwnedArePieces ==
  ASSUME NEW page \in Seq(Piece \cup {Newline})
  PROVE  FoldLeft(Owned, <<>>, page) \in Seq(Piece)
<1> DEFINE Good == [k \in 0 .. Len(page) |-> Seq(Piece)]
<1>1. FoldLeft(Owned, <<>>, page) = Owners!Folded(<<>>, page)
  BY DEF FoldLeft, MapThenFoldSet, Max,
         Owners!Folded, Owners!FoldLeft, Owners!MapThenFoldSet, Owners!Max
<1>2. <<>> \in Good[0]
  OBVIOUS
<1>3. ASSUME NEW k \in 1 .. Len(page), NEW a \in Good[k - 1]
      PROVE  Owned(a, page[k]) \in Good[k]
  <2>1. a \in Seq(Piece) /\ page[k] \in Piece \cup {Newline}
    OBVIOUS
  <2>2. page[k] = Newline => page[k].newline
    BY DEF Newline
  <2>3. Owned(a, page[k]) \in Seq(Piece)
    BY <2>1, <2>2 DEF Owned
  <2> QED BY <2>3
<1> HIDE DEF Good
<1>4. Owners!Folded(<<>>, page) \in Good[Len(page)]
  BY <1>2, <1>3, Owners!FoldStaysGood
<1> QED BY <1>1, <1>4 DEF Good

\* doLayout puts any components in order.
LEMMA DoLayoutIsSound ==
  ASSUME NEW cs \in Seq(Piece), NEW bs
  PROVE  DoLayout(cs, bs) \in SoundLayouts
<1> DEFINE end(i) == bs[Len(bs) + 1 - i].end
           laid == [i \in 1 .. Len(cs) |-> [part |-> cs[i], end |-> end(i)]]
           Part == {laid[i] : i \in 1 .. Len(cs)}
           Good == [k \in 0 .. Len(laid) |-> SoundLayouts]
<1> HIDE DEF end
<1>1. laid \in Seq(Part) /\ Len(laid) = Len(cs)
  OBVIOUS
<1>2. \A i \in 1 .. Len(laid) : laid[i].part \in Piece
  BY <1>1
<1>3. DoLayout(cs, bs) = Relays!Folded(<<>>, laid)
  BY DEF DoLayout, FoldLeft, MapThenFoldSet, Max, end,
         Relays!Folded, Relays!FoldLeft, Relays!MapThenFoldSet, Relays!Max
<1> HIDE DEF laid, Part
<1>4. <<>> \in Good[0]
  BY <1>1, EmptyIsSound
<1>5. ASSUME NEW k \in 1 .. Len(laid), NEW a \in Good[k - 1]
      PROVE  Relaid(a, laid[k]) \in Good[k]
  <2>1. a \in SoundLayouts /\ laid[k].part \in Piece
    BY <1>1, <1>2
  <2>2. Relaid(a, laid[k]) \in SoundLayouts
    BY <2>1, AddKeepsOrder, EndKeepsOrder DEF Relaid
  <2> QED BY <1>1, <2>2
<1> HIDE DEF Good
<1>6. Relays!Folded(<<>>, laid) \in Good[Len(laid)]
  BY <1>1, <1>4, <1>5, Relays!FoldStaysGood
<1> QED BY <1>1, <1>3, <1>6 DEF Good

----------------------------------------------------------------------------
\* Integer division.
LEMMA Division ==
  ASSUME NEW a \in Int, NEW b \in Nat \ {0}
  PROVE  a \div b \in Int /\ b * (a \div b) <= a /\ a < b * (a \div b) + b
  OBVIOUS

LEMMA DivisionNat ==
  ASSUME NEW a \in Nat, NEW b \in Nat \ {0}
  PROVE  a \div b \in Nat
  BY Division

\* A place that is rounded to w parts of r, and back, is at most r \div w + 1 less.
LEMMA Rounding ==
  ASSUME NEW r \in Nat \ {0}, NEW w \in Nat \ {0}, NEW v \in Nat
  PROVE  LET y == (r * ((w * v) \div r)) \div w IN
         y \in Nat /\ y <= v /\ v - y <= r \div w + 1
<1> DEFINE q == (w * v) \div r
           y == (r * q) \div w
           z == r \div w
<1>1. q \in Int /\ r * q <= w * v /\ w * v < r * q + r
  BY Division
<1>2. r * q \in Int /\ y \in Int /\ w * y <= r * q /\ r * q < w * y + w
  BY <1>1, Division
<1>3. z \in Int /\ w * z <= r /\ r < w * z + w
  BY Division
<1> HIDE DEF q, y, z
<1>4. y <= v
  <2> SUFFICES ASSUME y >= v + 1 PROVE FALSE
    BY <1>2
  <2>1. w * y >= w * (v + 1)
    BY <1>2
  <2> QED BY <1>1, <1>2, <2>1
<1>5. v - y <= z + 1
  <2> SUFFICES ASSUME v >= y + z + 2 PROVE FALSE
    BY <1>2, <1>3
  <2>1. w * v >= w * (y + z + 2)
    BY <1>2, <1>3
  <2>2. w * (y + z + 2) = w * y + w * z + w + w
    BY <1>2, <1>3
  <2> QED BY <1>1, <1>2, <1>3, <2>1, <2>2
<1>6. y >= 0
  <2>1. w * v >= 0
    OBVIOUS
  <2>2. q >= 0
    <3> SUFFICES ASSUME q <= -1 PROVE FALSE
      BY <1>1
    <3>1. r * q <= r * (-1)
      BY <1>1
    <3> QED BY <3>1, <2>1, <1>1
  <2>3. r * q >= 0
    BY <2>2, <1>1
  <2> SUFFICES ASSUME y <= -1 PROVE FALSE
    BY <1>2
  <2>4. w * y <= w * (-1)
    BY <1>2
  <2> QED BY <2>3, <2>4, <1>2
<1> QED BY <1>2, <1>4, <1>5, <1>6 DEF y, q, z

----------------------------------------------------------------------------
Panes == [top : Int, boxY : Int, canUp : BOOLEAN, canDown : BOOLEAN, total : Int,
          value : Int, held : BOOLEAN, dirty : BOOLEAN, distance : Int]

InsidePane(p) ==
  /\ title = 0 \/ p.boxY = p.top + title + Padding
  /\ p.total > Screen /\ p.value = Screen - p.top /\ p.total = Floor(p) - p.top
  /\ p.top <= Screen /\ Floor(p) >= 2 * Screen

\* What a step of the user may make of a pane p that was painted.
Fine(p, q) ==
  /\ q \in Panes /\ q.boxY - q.top = p.boxY - p.top
  /\ q.distance = 0 \/ (q.dirty /\ p.top - q.top = q.distance)
  /\ InsidePane(p) => InsidePane(q)

\* Moved, field by field: the children go up by dy, and the bar is calculated again.
LEMMA Moving ==
  ASSUME NEW p \in Panes, NEW dy \in Int, boxes \in SoundLayouts
  PROVE  /\ Moved(p, dy) \in Panes /\ Moved(p, dy).dirty /\ Moved(p, dy).distance = p.distance
         /\ Moved(p, dy).top = p.top - dy /\ Moved(p, dy).boxY = p.boxY - dy
         /\ Moved(p, dy).value = Screen - (p.top - dy)
         /\ Floor(Moved(p, dy)) = Floor(p) - dy
         /\ Moved(p, dy).total = Floor(p) - p.top
<1>1. Height(boxes) \in Nat
  BY HeightIsLimit DEF SoundLayouts
<1>2. p.top \in Int /\ p.boxY \in Int /\ Screen \in Nat
  BY LayoutAssumption DEF Panes
<1>3. PICK a \in Int, b \in Int : a = p.top - dy /\ b = p.boxY - dy
  BY <1>2
<1> DEFINE m == [p EXCEPT !.top = a, !.boxY = b]
<1>4. m \in Panes /\ m.top = a /\ m.boxY = b /\ m.distance = p.distance
  BY DEF Panes
<1>5. Floor(p) = p.boxY + Height(boxes) /\ Floor(m) = b + Height(boxes)
  BY <1>4 DEF Floor
<1>6. PICK t \in Int, v \in Int : t = Floor(m) - m.top /\ v = Screen - m.top
  BY <1>1, <1>2, <1>4, <1>5
<1> DEFINE u == m.top < Screen
           d == Floor(m) > 2 * Screen
<1>7. u \in BOOLEAN /\ d \in BOOLEAN
  OBVIOUS
<1> DEFINE n == [m EXCEPT !.total = t, !.value = v, !.canUp = u, !.canDown = d, !.dirty = TRUE]
<1>8. Moved(p, dy) = n
  BY <1>3, <1>6 DEF Moved, CalculateScrollBar
<1> HIDE DEF m, u, d
<1>9. n \in Panes /\ n.dirty /\ n.distance = m.distance /\ n.top = m.top /\ n.boxY = m.boxY
      /\ n.value = v /\ n.total = t
  BY <1>4, <1>7 DEF Panes
<1>10. Floor(n) = Floor(m)
  BY <1>9 DEF Floor
<1> HIDE DEF n
<1>11. n.top = p.top - dy /\ n.boxY = p.boxY - dy /\ n.distance = p.distance
  BY <1>3, <1>4, <1>9
<1>12. n.value = Screen - (p.top - dy) /\ Floor(n) = Floor(p) - dy /\ n.total = Floor(p) - p.top
  BY <1>1, <1>2, <1>3, <1>4, <1>5, <1>6, <1>9, <1>10
<1> QED BY <1>8, <1>9, <1>11, <1>12

\* Half of a page is scrolled: how far it goes is all that matters.
LEMMA FineMove ==
  ASSUME NEW p \in Panes, p.distance = 0, NEW dy \in Int,
         boxes \in SoundLayouts, title \in Nat,
         InsidePane(p) => p.top - dy <= Screen /\ Floor(p) - dy >= 2 * Screen
  PROVE  Fine(p, Moved(p, dy)) /\ Fine(p, Scrolled(p, dy))
<1> DEFINE m == Moved(p, dy)
           n == Scrolled(p, dy)
<1>1. /\ m \in Panes /\ m.dirty /\ m.distance = p.distance
      /\ m.top = p.top - dy /\ m.boxY = p.boxY - dy /\ m.value = Screen - (p.top - dy)
      /\ Floor(m) = Floor(p) - dy /\ m.total = Floor(p) - p.top
  BY Moving
<1>2. n \in Panes /\ n.dirty /\ n.distance = dy /\ n.top = m.top /\ n.boxY = m.boxY
      /\ n.value = m.value /\ n.total = m.total
  BY <1>1 DEF Scrolled, Panes
<1>3. Floor(n) = Floor(m)
  BY <1>2 DEF Floor
<1>4. p.top \in Int /\ p.boxY \in Int /\ Screen \in Nat /\ Padding \in Nat /\ Floor(p) \in Int
  <2>1. Height(boxes) \in Nat
    BY HeightIsLimit DEF SoundLayouts
  <2>2. p.top \in Int /\ p.boxY \in Int
    BY DEF Panes
  <2> QED BY <2>1, <2>2, LayoutAssumption DEF Floor
<1> HIDE DEF m, n
<1>5. m.boxY - m.top = p.boxY - p.top /\ n.boxY - n.top = p.boxY - p.top
      /\ p.top - n.top = n.distance
  BY <1>1, <1>2, <1>4
<1>6. InsidePane(p) => InsidePane(m)
  BY <1>1, <1>4 DEF InsidePane
<1>7. InsidePane(p) => InsidePane(n)
  BY <1>1, <1>2, <1>3, <1>4 DEF InsidePane
<1>8. Fine(p, m)
  BY <1>1, <1>5, <1>6 DEF Fine
<1>9. Fine(p, n)
  BY <1>2, <1>5, <1>7 DEF Fine
<1> QED BY <1>8, <1>9 DEF m, n

\* The integers of a pane.
LEMMA PaneFields ==
  ASSUME NEW p \in Panes, boxes \in SoundLayouts
  PROVE  /\ p.top \in Int /\ p.boxY \in Int /\ p.total \in Int /\ p.value \in Int
         /\ p.distance \in Int /\ Floor(p) \in Int
<1>1. Height(boxes) \in Nat
  BY HeightIsLimit DEF SoundLayouts
<1>2. /\ p.top \in Int /\ p.boxY \in Int /\ p.total \in Int /\ p.value \in Int
      /\ p.distance \in Int
  BY DEF Panes
<1> QED BY <1>1, <1>2 DEF Floor

\* Nothing is scrolled.
LEMMA FineSame ==
  ASSUME NEW p \in Panes, p.distance = 0
  PROVE  Fine(p, p)
BY DEF Fine

\* Up and down, by any amount.
LEMMA FineUp ==
  ASSUME NEW p \in Panes, p.distance = 0, NEW by \in Nat,
         boxes \in SoundLayouts, title \in Nat
  PROVE  Fine(p, Up(p, by))
<1>1. p.top \in Int /\ Floor(p) \in Int /\ Screen \in Nat
  BY PaneFields, LayoutAssumption
<1>2. PICK dy \in Int : dy = -AdjustScrollUp(p, by)
  BY <1>1 DEF AdjustScrollUp, Smaller
<1>3. InsidePane(p) => p.top - dy <= Screen /\ Floor(p) - dy >= 2 * Screen
  BY <1>1, <1>2 DEF InsidePane, AdjustScrollUp, Smaller
<1>4. Fine(p, Scrolled(p, dy))
  BY <1>3, FineMove
<1> QED BY <1>2, <1>4, FineSame DEF Up

\* adjustScroll never takes the bottom of a long page above the bottom of the screen.
LEMMA Adjusting ==
  ASSUME NEW p \in Panes, NEW by \in Int, boxes \in SoundLayouts
  PROVE  /\ AdjustScroll(p, by) \in Int
         /\ Floor(p) >= 2 * Screen => Floor(p) - AdjustScroll(p, by) >= 2 * Screen
         /\ AdjustScroll(p, by) = by \/ (Floor(p) >= 2 * Screen /\ AdjustScroll(p, by) >= 0)
<1>1. Floor(p) \in Int /\ Screen \in Nat
  BY PaneFields, LayoutAssumption
<1> QED BY <1>1 DEF AdjustScroll

LEMMA FineDown ==
  ASSUME NEW p \in Panes, p.distance = 0, NEW by \in Nat,
         boxes \in SoundLayouts, title \in Nat
  PROVE  Fine(p, Down(p, by))
<1>1. p.top \in Int /\ Floor(p) \in Int /\ Screen \in Nat
  BY PaneFields, LayoutAssumption
<1>2. PICK dy \in Int : dy = AdjustScroll(p, by)
  BY Adjusting
<1>3. InsidePane(p) => p.top - dy <= Screen /\ Floor(p) - dy >= 2 * Screen
  BY <1>1, <1>2, Adjusting DEF InsidePane
<1>4. Fine(p, Scrolled(p, dy))
  BY <1>3, FineMove
<1> QED BY <1>2, <1>4, FineSame DEF Down

\* The percentage is of a number of pixels, which is not negative.
LEMMA Percent ==
  ASSUME NEW p \in Panes, NEW i \in Int, boxes \in SoundLayouts
  PROVE  PercentY(p, i) \in Nat
<1>1. p.total \in Int /\ VisibleRange \in Nat \ {0} /\ Whole \in Nat \ {0}
  BY PaneFields, LayoutAssumption DEF VisibleRange
<1>2. Larger(i, 0) \in Nat
  BY DEF Larger
<1>3. CASE p.total > VisibleRange
  <2>1. PICK r \in Nat, k \in Nat : r = p.total - VisibleRange /\ k = Larger(i, 0)
    BY <1>1, <1>2, <1>3
  <2>2. r * k \in Nat
    OBVIOUS
  <2>3. (r * k) \div Whole \in Nat
    BY <1>1, <2>2, DivisionNat
  <2> QED BY <1>3, <2>1, <2>3 DEF PercentY
<1> QED BY <1>1, <1>3 DEF PercentY

\* The handle is dragged.
LEMMA FinePercent ==
  ASSUME NEW p \in Panes, p.distance = 0, NEW i \in Int,
         boxes \in SoundLayouts, title \in Nat
  PROVE  Fine(p, ScrollToPercent(p, i))
<1>1. p.top \in Int /\ Floor(p) \in Int /\ Screen \in Nat /\ PercentY(p, i) \in Nat
  BY PaneFields, Percent, LayoutAssumption
<1>2. PICK by \in Int : by = p.top - Screen + PercentY(p, i)
  BY <1>1
<1>3. PICK dy \in Int : dy = AdjustScroll(p, by)
  BY Adjusting
<1>4. InsidePane(p) => p.top - dy <= Screen /\ Floor(p) - dy >= 2 * Screen
  BY <1>1, <1>2, <1>3, Adjusting DEF InsidePane
<1>5. Fine(p, Moved(p, dy))
  BY <1>4, FineMove
<1> QED BY <1>2, <1>3, <1>5 DEF ScrollToPercent

\* The handle and the flags of a pane do not move it.
LEMMA FineFlags ==
  ASSUME NEW p \in Panes, NEW q \in Panes, Fine(p, q)
  PROVE  /\ Fine(p, Release(q)) /\ Fine(p, [q EXCEPT !.held = TRUE])
         /\ Fine(p, [q EXCEPT !.dirty = TRUE])
<1>1. ASSUME NEW r \in Panes, r.boxY = q.boxY, r.top = q.top, r.total = q.total,
             r.value = q.value, r.distance = q.distance, q.dirty => r.dirty
      PROVE  Fine(p, r)
  <2>1. Floor(r) = Floor(q)
    BY <1>1 DEF Floor
  <2>2. InsidePane(q) => InsidePane(r)
    BY <1>1, <2>1 DEF InsidePane
  <2> QED BY <1>1, <2>2 DEF Fine
<1>2. Release(q) \in Panes /\ [q EXCEPT !.held = TRUE] \in Panes /\ [q EXCEPT !.dirty = TRUE] \in Panes
  BY DEF Panes, Release
<1>3. Fine(p, Release(q))
  <2> DEFINE r == Release(q)
  <2>1. r.boxY = q.boxY /\ r.top = q.top /\ r.total = q.total /\ r.value = q.value
        /\ r.distance = q.distance /\ r.dirty = q.dirty
    BY DEF Panes, Release
  <2> HIDE DEF r
  <2>2. r \in Panes
    BY <1>2 DEF r
  <2>3. Fine(p, r)
    BY <1>1, <2>1, <2>2
  <2> QED BY <2>3 DEF r
<1>4. Fine(p, [q EXCEPT !.held = TRUE])
  <2> DEFINE r == [q EXCEPT !.held = TRUE]
  <2>1. r.boxY = q.boxY /\ r.top = q.top /\ r.total = q.total /\ r.value = q.value
        /\ r.distance = q.distance /\ r.dirty = q.dirty
    BY DEF Panes
  <2> HIDE DEF r
  <2>2. r \in Panes
    BY <1>2 DEF r
  <2>3. Fine(p, r)
    BY <1>1, <2>1, <2>2
  <2> QED BY <2>3 DEF r
<1>5. Fine(p, [q EXCEPT !.dirty = TRUE])
  <2> DEFINE r == [q EXCEPT !.dirty = TRUE]
  <2>1. r.boxY = q.boxY /\ r.top = q.top /\ r.total = q.total /\ r.value = q.value
        /\ r.distance = q.distance /\ r.dirty
    BY DEF Panes
  <2> HIDE DEF r
  <2>2. r \in Panes
    BY <1>2 DEF r
  <2>3. Fine(p, r)
    BY <1>1, <2>1, <2>2
  <2> QED BY <2>3 DEF r
<1> QED BY <1>3, <1>4, <1>5

LEMMA FineReleased ==
  ASSUME NEW p \in Panes, NEW q, Fine(p, q)
  PROVE  Fine(p, Release(q))
BY FineFlags DEF Fine

\* The bar is touched, wherever it is.
LEMMA FineBar ==
  ASSUME NEW p \in Panes, p.distance = 0, NEW y \in 0..Screen - 1,
         boxes \in SoundLayouts, title \in Nat
  PROVE  Fine(p, DoScroll(p, y))
<1>1. Increment \in Nat /\ BlockIncrement \in Nat /\ Screen \in Nat
  BY LayoutAssumption DEF BlockIncrement, Larger
<1>2. y \in Int /\ Arrow \in Nat /\ VisibleRange \in Nat \ {0} /\ Whole \in Nat
  BY <1>1, LayoutAssumption DEF VisibleRange
<1>3. PICK i : i = ((y - Arrow) * Whole) \div VisibleRange
  OBVIOUS
<1>4. i \in Int
  <2>1. PICK k \in Int : k = (y - Arrow) * Whole
    BY <1>2
  <2> QED BY <1>2, <1>3, <2>1, Division
<1>5. Fine(p, Release(Up(p, Increment))) /\ Fine(p, Release(Up(p, BlockIncrement)))
  BY <1>1, FineUp, FineReleased
<1>6. Fine(p, Release(Down(p, Increment))) /\ Fine(p, Release(Down(p, BlockIncrement)))
  BY <1>1, FineDown, FineReleased
<1>7. Fine(p, ScrollToPercent(p, i))
  BY <1>4, FinePercent
<1>8. Fine(p, [p EXCEPT !.held = TRUE])
  BY FineSame, FineFlags
<1> QED BY <1>3, <1>5, <1>6, <1>7, <1>8 DEF DoScroll

\* The stylus: the bar, or a drag of the page.
LEMMA FineTouches ==
  ASSUME NEW p \in Panes, p.distance = 0, boxes \in SoundLayouts, title \in Nat,
         NEW q \in Touches(p)
  PROVE  Fine(p, q)
<1>1. Fine(p, Release(p)) /\ Fine(p, [p EXCEPT !.held = TRUE])
  BY FineSame, FineFlags
<1>2. ASSUME NEW y \in 0..Screen - 1, NEW r \in BarTouches(p, y) PROVE Fine(p, r)
  <2>1. r \in {DoScroll(p, y), Release(p), [p EXCEPT !.held = TRUE]}
    BY <1>2 DEF BarTouches
  <2> QED BY <1>1, <2>1, FineBar
<1>3. Fine(p, Up(p, 1)) /\ Fine(p, Down(p, 1))
  BY FineUp, FineDown
<1>4. ASSUME NEW r \in Scrolls(p) PROVE Fine(p, r)
  <2>1. \/ \E y \in 0..Screen - 1 : r \in BarTouches(p, y)
        \/ r \in {Up(p, 1), Down(p, 1), Release(p)}
    BY <1>4 DEF Scrolls
  <2> QED BY <1>1, <1>2, <1>3, <2>1
<1>5. ASSUME NEW r \in Scrolls(p) PROVE Fine(p, [r EXCEPT !.dirty = TRUE])
  <2>1. Fine(p, r) /\ r \in Panes
    BY <1>4, <1>5 DEF Fine
  <2> QED BY <2>1, FineFlags
<1> QED BY <1>4, <1>5 DEF Touches

\* The keys.
LEMMA FineKeys ==
  ASSUME NEW p \in Panes, p.distance = 0, boxes \in SoundLayouts, title \in Nat,
         NEW q \in KeyScrolls(p)
  PROVE  Fine(p, q)
<1>1. Increment \in Nat /\ PageIncrement \in Nat
  <2>1. Increment \in Nat /\ Screen \in Nat
    BY LayoutAssumption
  <2>2. PICK k \in Nat : k = (2 * Screen) \div 16
    BY <2>1
  <2>3. 2 * Screen - k \in Nat
    BY <2>1, <2>2
  <2> QED BY <2>1, <2>2, <2>3 DEF PageIncrement
<1> QED BY <1>1, FineSame, FineUp, FineDown DEF KeyScrolls

----------------------------------------------------------------------------
(* The invariant                                                           *)

LayoutTypes ==
  /\ parts \in Seq(Piece) /\ title \in Nat /\ pane \in Panes /\ position \in Int
  /\ rendered \in BOOLEAN /\ viewDirty \in BOOLEAN /\ shown \in BOOLEAN

\* The inductive invariant.  The distance is 0 between the frames, and without a title the
\* box is the first child: both are what a step of the pane relies on.
LayoutInv ==
  /\ LayoutTypes
  /\ boxes \in SoundLayouts
  /\ distance = 0
  /\ title = 0 => boxY = top

\* A page that has just been parsed.
LEMMA InitLayout == LayoutInit => LayoutInv
<1> SUFFICES ASSUME LayoutInit PROVE LayoutInv
  OBVIOUS
<1>1. PICK page \in PageParts : parts = FoldLeft(Owned, <<>>, page) /\ boxes = FoldLeft(Given, <<>>, page)
  BY DEF LayoutInit
<1>2. page \in Seq(Piece \cup {Newline})
  BY LayoutAssumption
<1>3. parts \in Seq(Piece) /\ boxes \in SoundLayouts
  BY <1>1, <1>2, GivenIsSound, OwnedArePieces
<1>4. title \in Nat
  BY LayoutAssumption DEF LayoutInit
<1>5. /\ top = 0 /\ boxY = 0 /\ total = 0 /\ value = 0 /\ distance = 0 /\ position = -1
      /\ canUp \in BOOLEAN /\ canDown \in BOOLEAN /\ held \in BOOLEAN /\ dirty \in BOOLEAN
      /\ rendered \in BOOLEAN /\ viewDirty \in BOOLEAN /\ shown \in BOOLEAN
  BY DEF LayoutInit
<1>6. pane \in Panes
  BY <1>5 DEF pane, Panes
<1> QED BY <1>3, <1>4, <1>5, <1>6 DEF LayoutInv, LayoutTypes

\* A step that becomes the pane q.
LEMMA Becoming ==
  ASSUME NEW q \in Panes, Becomes(q)
  PROVE  /\ pane' = q /\ top' = q.top /\ boxY' = q.boxY /\ total' = q.total /\ value' = q.value
         /\ distance' = q.distance
BY DEF Becomes, pane, Panes

\* SetSize, field by field.
LEMMA Setting ==
  ASSUME NEW p \in Panes, boxes \in SoundLayouts, title \in Nat
  PROVE  /\ SetSize(p) \in Panes /\ SetSize(p).distance = p.distance /\ SetSize(p).top = p.top
         /\ SetSize(p).boxY = (IF title = 0 THEN p.boxY ELSE p.top + title + Padding)
         /\ SetSize(p).value = Screen - p.top /\ SetSize(p).dirty
         /\ SetSize(p).total = Floor(SetSize(p)) - p.top
<1>1. Height(boxes) \in Nat
  BY HeightIsLimit DEF SoundLayouts
<1>2. p.top \in Int /\ p.boxY \in Int /\ Screen \in Nat /\ Padding \in Nat
  BY LayoutAssumption DEF Panes
<1>3. PICK b \in Int : b = IF title = 0 THEN p.boxY ELSE p.top + title + Padding
  BY <1>2
<1> DEFINE m == LayoutChildren(p)
<1>4. m \in Panes /\ m.top = p.top /\ m.boxY = b /\ m.distance = p.distance
  <2>1. m = [p EXCEPT !.boxY = b]
    BY <1>3 DEF LayoutChildren, Panes
  <2> QED BY <2>1 DEF Panes
<1> HIDE DEF m
<1>5. Floor(m) = b + Height(boxes)
  BY <1>4 DEF Floor
<1>6. PICK t \in Int, v \in Int : t = Floor(m) - m.top /\ v = Screen - m.top
  BY <1>1, <1>2, <1>4, <1>5
<1> DEFINE u == m.top < Screen
           d == Floor(m) > 2 * Screen
<1>7. u \in BOOLEAN /\ d \in BOOLEAN
  OBVIOUS
<1> DEFINE n == [m EXCEPT !.total = t, !.value = v, !.canUp = u, !.canDown = d, !.dirty = TRUE]
<1>8. SetSize(p) = n
  BY <1>6 DEF SetSize, CalculateScrollBar, m
<1> HIDE DEF u, d
<1>9. n \in Panes /\ n.dirty /\ n.distance = m.distance /\ n.top = m.top /\ n.boxY = m.boxY
      /\ n.value = v /\ n.total = t
  BY <1>4, <1>7 DEF Panes
<1>10. Floor(n) = Floor(m)
  BY <1>9 DEF Floor
<1> HIDE DEF n
<1> QED BY <1>3, <1>4, <1>5, <1>6, <1>8, <1>9, <1>10

\* The position that the view keeps is a number.
LEMMA Current ==
  ASSUME NEW p \in Panes, boxes \in SoundLayouts
  PROVE  CurrentPosition(p) \in Int
<1>1. p.total \in Int /\ p.value \in Int /\ VisibleRange \in Nat \ {0} /\ Whole \in Nat
  BY PaneFields, LayoutAssumption DEF VisibleRange
<1>2. CASE p.total > VisibleRange
  <2>1. PICK r \in Nat \ {0}, k \in Int : r = p.total - VisibleRange /\ k = Whole * p.value
    BY <1>1, <1>2
  <2>2. k \div r \in Int
    BY <2>1, Division
  <2> QED BY <1>2, <2>1, <2>2 DEF CurrentPosition
<1> QED BY <1>1, <1>2 DEF CurrentPosition

\* ScrollToPercent, field by field.
LEMMA ToPercent ==
  ASSUME NEW p \in Panes, NEW i \in Int, boxes \in SoundLayouts
  PROVE  \E dy \in Int :
         /\ dy = AdjustScroll(p, p.top - Screen + PercentY(p, i))
         /\ ScrollToPercent(p, i) \in Panes /\ ScrollToPercent(p, i).distance = p.distance
         /\ ScrollToPercent(p, i).top = p.top - dy
         /\ ScrollToPercent(p, i).boxY - ScrollToPercent(p, i).top = p.boxY - p.top
         /\ ScrollToPercent(p, i).value = Screen - (p.top - dy)
         /\ ScrollToPercent(p, i).total = Floor(p) - p.top
         /\ Floor(ScrollToPercent(p, i)) = Floor(p) - dy
<1>1. p.top \in Int /\ p.boxY \in Int /\ Floor(p) \in Int /\ Screen \in Nat /\ PercentY(p, i) \in Nat
  BY PaneFields, Percent, LayoutAssumption
<1>2. PICK by \in Int : by = p.top - Screen + PercentY(p, i)
  BY <1>1
<1>3. PICK dy \in Int : dy = AdjustScroll(p, by)
  BY <1>2, Adjusting
<1>4. ScrollToPercent(p, i) = Moved(p, dy)
  BY <1>2, <1>3 DEF ScrollToPercent
<1> DEFINE m == Moved(p, dy)
<1>5. /\ m \in Panes /\ m.distance = p.distance /\ m.top = p.top - dy /\ m.boxY = p.boxY - dy
      /\ m.value = Screen - (p.top - dy) /\ Floor(m) = Floor(p) - dy /\ m.total = Floor(p) - p.top
  BY <1>3, Moving
<1> HIDE DEF m
<1>6. m.boxY - m.top = p.boxY - p.top
  BY <1>1, <1>3, <1>5
<1> QED BY <1>2, <1>3, <1>4, <1>5, <1>6 DEF m

\* Rendering, from the top: where the box is under the first child, and how long
\* the page is.
Offset == IF title = 0 THEN 0 ELSE title + Padding

\* The sizes are set twice, with the same result.
LEMMA FromTheTop ==
  ASSUME NEW p \in Panes, p.top = 0, p.boxY = 0, p.distance = 0,
         boxes \in SoundLayouts, title \in Nat
  PROVE  /\ SetSize(SetSize(p)) \in Panes /\ SetSize(SetSize(p)).distance = 0
         /\ SetSize(SetSize(p)).top = 0 /\ SetSize(SetSize(p)).boxY = Offset
         /\ SetSize(SetSize(p)).total = Offset + Height(boxes)
         /\ Floor(SetSize(SetSize(p))) = Offset + Height(boxes)
         /\ Offset \in Nat /\ Height(boxes) \in Nat
<1> DEFINE a == SetSize(p)
           b == SetSize(a)
<1>1. Offset \in Nat /\ Height(boxes) \in Nat /\ Padding \in Nat
  BY HeightIsLimit, LayoutAssumption DEF Offset, SoundLayouts
<1>2. a \in Panes /\ a.distance = 0 /\ a.top = 0 /\ a.boxY = Offset
  BY Setting, LayoutAssumption DEF Offset
<1> HIDE DEF a
<1>3. b \in Panes /\ b.distance = 0 /\ b.top = 0 /\ b.boxY = Offset /\ b.total = Floor(b) - 0
  BY <1>2, Setting, LayoutAssumption DEF Offset
<1> HIDE DEF b
<1>4. Floor(b) = Offset + Height(boxes)
  BY <1>3 DEF Floor
<1>5. b.total = Offset + Height(boxes)
  BY <1>1, <1>3, <1>4
<1> QED BY <1>1, <1>3, <1>4, <1>5 DEF a, b

\* The page is placed as a whole.
LEMMA Rendered ==
  ASSUME NEW p \in Panes, p.top = 0, p.boxY = 0, p.distance = 0,
         boxes \in SoundLayouts, title \in Nat, NEW at \in Int
  PROVE  /\ PlaceAt(p, at) \in Panes /\ PlaceAt(p, at).distance = 0
         /\ PlaceAt(p, at).boxY - PlaceAt(p, at).top = Offset
<1> DEFINE b == SetSize(SetSize(p))
           c == Reset(p)
           d == PlaceAt(p, at)
<1>1. b \in Panes /\ b.distance = 0 /\ b.top = 0 /\ b.boxY = Offset /\ Offset \in Nat
  BY FromTheTop
<1>2. PICK z \in Int : z = 0 /\ c = ScrollToPercent(b, z) /\ d = ScrollToPercent(c, at)
  BY DEF Reset, PlaceAt
<1> HIDE DEF b, c, d
<1>3. c \in Panes /\ c.distance = 0 /\ c.boxY - c.top = b.boxY - b.top
  BY <1>1, <1>2, ToPercent
<1>4. d \in Panes /\ d.distance = 0 /\ d.boxY - d.top = c.boxY - c.top
  BY <1>2, <1>3, ToPercent
<1>5. d.boxY - d.top = Offset
  BY <1>1, <1>3, <1>4
<1> QED BY <1>4, <1>5 DEF d

\* A page that is longer than the screen is rendered inside it, and as far down as
\* the place asks for, if there is as much of it.
LEMMA RenderedInside ==
  ASSUME NEW p \in Panes, p.top = 0, p.boxY = 0, p.distance = 0,
         boxes \in SoundLayouts, title \in Nat, NEW at \in Int,
         NEW t \in Nat, t = Offset + Height(boxes), t > Screen,
         NEW y, y = ((t - VisibleRange) * Larger(at, 0)) \div Whole
  PROVE  /\ InsidePane(PlaceAt(p, at)) /\ PlaceAt(p, at).total = t
         /\ y \in Nat
         /\ t - y >= Screen => PlaceAt(p, at).top = Screen - y
<1> DEFINE b == SetSize(SetSize(p))
           c == Reset(p)
           d == PlaceAt(p, at)
<1>1. /\ Screen \in Nat /\ VisibleRange \in Nat /\ VisibleRange <= Screen /\ Whole \in Nat \ {0}
      /\ Padding \in Nat
  BY LayoutAssumption DEF VisibleRange
<1>2. /\ b \in Panes /\ b.distance = 0 /\ b.top = 0 /\ b.boxY = Offset /\ b.total = t
      /\ Floor(b) = t /\ Offset \in Nat
  BY FromTheTop
<1>3. PICK z \in Int : z = 0 /\ c = ScrollToPercent(b, z) /\ d = ScrollToPercent(c, at)
  BY DEF Reset, PlaceAt
<1>4. d \in Panes /\ d.distance = 0 /\ d.boxY - d.top = Offset
  BY Rendered
<1> HIDE DEF b, c, d
<1>5. PercentY(b, z) = 0
  <2>1. Larger(0, 0) = 0
    BY DEF Larger
  <2>2. (t - VisibleRange) * 0 = 0 /\ 0 \div Whole = 0
    <3>1. 0 \div Whole = 0
      <4>1. PICK k \in Int : k = 0 \div Whole /\ Whole * k <= 0 /\ 0 < Whole * k + Whole
        BY <1>1, Division
      <4>2. CASE k >= 1
        <5>1. Whole * k >= Whole * 1
          BY <1>1, <4>2
        <5> QED BY <1>1, <4>1, <5>1
      <4>3. CASE k <= -1
        <5>1. Whole * k <= Whole * (-1)
          BY <1>1, <4>3
        <5> QED BY <1>1, <4>1, <5>1
      <4> QED BY <4>1, <4>2, <4>3
    <3> QED BY <1>1, <3>1
  <2> QED BY <1>1, <1>2, <1>3, <2>1, <2>2 DEF PercentY
<1>6. AdjustScroll(b, b.top - Screen + PercentY(b, z)) = -Screen
  BY <1>1, <1>2, <1>5 DEF AdjustScroll
<1>7. /\ c \in Panes /\ c.distance = 0 /\ c.top = Screen /\ c.total = t /\ Floor(c) = t + Screen
  <2>1. PICK dy \in Int :
          /\ dy = AdjustScroll(b, b.top - Screen + PercentY(b, z))
          /\ c \in Panes /\ c.distance = b.distance /\ c.top = b.top - dy
          /\ c.total = Floor(b) - b.top /\ Floor(c) = Floor(b) - dy
    BY <1>2, <1>3, ToPercent
  <2>2. dy = -Screen
    BY <1>6, <2>1
  <2> QED BY <1>1, <1>2, <2>1, <2>2
<1>8. PercentY(c, at) = y /\ y \in Nat
  <2>1. PercentY(c, at) \in Nat
    BY <1>7, Percent
  <2>2. PercentY(c, at) = y
    BY <1>1, <1>7 DEF PercentY
  <2> QED BY <2>1, <2>2
<1>9. PICK dy \in Int :
        /\ dy = AdjustScroll(c, c.top - Screen + PercentY(c, at))
        /\ d.top = c.top - dy /\ d.value = Screen - (c.top - dy) /\ d.total = Floor(c) - c.top
        /\ Floor(d) = Floor(c) - dy
  BY <1>3, <1>7, ToPercent
<1>10. dy = IF t - y < Screen THEN t - Screen ELSE y
  <2>1. c.top - Screen + PercentY(c, at) = y
    BY <1>1, <1>7, <1>8
  <2> QED BY <1>1, <1>7, <1>8, <1>9, <2>1 DEF AdjustScroll
<1>11. /\ d.top = Screen - dy /\ d.value = Screen - (Screen - dy) /\ d.total = (t + Screen) - Screen
       /\ Floor(d) = (t + Screen) - dy /\ dy \in Int
  BY <1>7, <1>9
<1>12. d.top \in Int /\ d.boxY \in Int
  BY <1>4, PaneFields
<1>13. InsidePane(d)
  <2>1. title = 0 \/ d.boxY = d.top + title + Padding
    BY <1>1, <1>4, <1>12 DEF Offset
  <2>2. /\ d.total > Screen /\ d.value = Screen - d.top /\ d.total = Floor(d) - d.top
        /\ d.top <= Screen /\ Floor(d) >= 2 * Screen
    BY <1>1, <1>8, <1>10, <1>11
  <2> QED BY <2>1, <2>2 DEF InsidePane
<1>14. d.total = t
  BY <1>1, <1>11
<1>15. t - y >= Screen => d.top = Screen - y
  BY <1>1, <1>8, <1>10, <1>11
<1> QED BY <1>8, <1>13, <1>14, <1>15 DEF d

\* The tick paints a pane that is fine.
LEMMA Painted ==
  ASSUME LayoutInv, NEW p, Fine(pane, p), Paints(p)
  PROVE  /\ pane' \in Panes /\ distance' = 0 /\ boxY' - top' = boxY - top
         /\ shown' \in BOOLEAN /\ viewDirty' \in BOOLEAN /\ (shown => shown')
         /\ boxY' = p.boxY /\ top' = p.top /\ total' = p.total /\ value' = p.value
<1> DEFINE q == [p EXCEPT !.dirty = FALSE, !.distance = IF p.dirty THEN 0 ELSE @]
<1>1. p \in Panes /\ pane \in Panes /\ shown \in BOOLEAN
  BY DEF Fine, LayoutInv, LayoutTypes
<1>2. p.distance = 0 \/ p.dirty
  BY DEF Fine
<1>3. q \in Panes /\ q.distance = 0 /\ q.boxY = p.boxY /\ q.top = p.top /\ q.total = p.total
      /\ q.value = p.value
  <2>1. q = [p EXCEPT !.dirty = FALSE, !.distance = 0]
    BY <1>1, <1>2 DEF Panes
  <2> HIDE DEF q
  <2>2. q.distance = 0 /\ q.boxY = p.boxY /\ q.top = p.top /\ q.total = p.total /\ q.value = p.value
    BY <1>1, <2>1 DEF Panes
  <2> DEFINE r == [p EXCEPT !.dirty = FALSE]
  <2>3. r \in Panes
    BY <1>1 DEF Panes
  <2>4. q = [r EXCEPT !.distance = 0]
    BY <2>1
  <2> HIDE DEF r
  <2>5. q \in Panes
    BY <2>3, <2>4 DEF Panes
  <2> QED BY <2>2, <2>5
<1>4. Becomes(q)
  BY DEF Paints
<1> HIDE DEF q
<1>5. pane' = q /\ top' = q.top /\ boxY' = q.boxY /\ total' = q.total /\ value' = q.value
      /\ distance' = q.distance
  BY <1>3, <1>4, Becoming
<1>6. pane.boxY = boxY /\ pane.top = top
  BY DEF pane
<1>7. boxY' - top' = boxY - top
  BY <1>3, <1>5, <1>6 DEF Fine
<1>8. shown' = IF ~p.dirty THEN shown ELSE p.distance = 0 \/ (shown /\ top - p.top = p.distance)
  BY DEF Paints
<1>9. shown' \in BOOLEAN /\ (shown => shown')
  BY <1>1, <1>6, <1>8 DEF Fine
<1> QED BY <1>3, <1>5, <1>7, <1>9 DEF Paints

\* An image puts the box at the top of the screens, and without a title so is the first child.
LEMMA ArrivedFields ==
  ASSUME NEW p \in Panes, title \in Nat
  PROVE  /\ Arrived(p) \in Panes /\ Arrived(p).distance = p.distance
         /\ (title = 0 => Arrived(p).boxY = Arrived(p).top)
<1>1. CASE title = 0
  <2> DEFINE r == [p EXCEPT !.boxY = 0]
             q == [r EXCEPT !.top = 0]
  <2>1. r \in Panes /\ r.boxY = 0 /\ r.distance = p.distance
    BY DEF Panes
  <2>2. Arrived(p) = q
    BY <1>1 DEF Arrived
  <2> HIDE DEF r
  <2>3. q \in Panes
    BY <2>1 DEF Panes
  <2>4. q.top = 0 /\ q.boxY = 0 /\ q.distance = p.distance
    BY <2>1 DEF Panes
  <2> QED BY <2>2, <2>3, <2>4
<1>2. CASE title # 0
  <2>1. Arrived(p) = [p EXCEPT !.boxY = 0]
    BY <1>2 DEF Arrived, Panes
  <2> QED BY <1>2, <2>1 DEF Panes
<1> QED BY <1>1, <1>2

\* The steps, by the panes they make.
LEMMA Displaying ==
  ASSUME LayoutInv, Render
  PROVE  \E q \in Panes, at \in Int :
           /\ Becomes(q) /\ q.distance = 0 /\ q.boxY - q.top = Offset
           /\ q = PlaceAt([pane EXCEPT !.top = 0, !.boxY = 0], at)
           /\ position # -1 => at = position
           /\ rendered' = TRUE /\ viewDirty' = TRUE /\ shown' = FALSE
           /\ UNCHANGED <<parts, boxes, title, position>>
<1>1. /\ pane \in Panes /\ pane.distance = 0 /\ position \in Int
      /\ boxes \in SoundLayouts /\ title \in Nat /\ Whole \in Nat
  BY LayoutAssumption DEF LayoutInv, LayoutTypes, pane
<1>2. PICK at \in Int : Display(at) /\ (position # -1 => at = position)
  <2>1. PICK at \in IF position = -1 /\ ~rendered THEN {-1, Whole \div 2} ELSE {position} : Display(at)
    BY DEF Render
  <2>2. at \in Int /\ (position # -1 => at = position)
    BY <1>1, <2>1
  <2> QED BY <2>1, <2>2
<1> DEFINE p == [pane EXCEPT !.top = 0, !.boxY = 0]
<1>3. p \in Panes /\ p.top = 0 /\ p.boxY = 0 /\ p.distance = 0
  <2> DEFINE r == [pane EXCEPT !.top = 0]
  <2>1. r \in Panes /\ r.top = 0 /\ r.distance = 0
    BY <1>1 DEF Panes
  <2>2. p = [r EXCEPT !.boxY = 0]
    OBVIOUS
  <2> HIDE DEF r, p
  <2>3. p \in Panes
    BY <2>1, <2>2 DEF Panes
  <2>4. p.top = 0 /\ p.boxY = 0 /\ p.distance = 0
    BY <2>1, <2>2 DEF Panes
  <2> QED BY <2>3, <2>4
<1>4. Becomes(PlaceAt(p, at)) /\ rendered' = TRUE /\ viewDirty' = TRUE /\ shown' = FALSE
  BY <1>2 DEF Display
<1> DEFINE q == PlaceAt(p, at)
<1>5. q = PlaceAt([pane EXCEPT !.top = 0, !.boxY = 0], at)
  OBVIOUS
<1> HIDE DEF p
<1>6. q \in Panes /\ q.distance = 0 /\ q.boxY - q.top = Offset
  BY <1>1, <1>3, Rendered
<1>7. UNCHANGED <<parts, boxes, title, position>>
  BY DEF Render, Page
<1> HIDE DEF q
<1>8. Becomes(q)
  BY <1>4 DEF q
<1> QED BY <1>2, <1>4, <1>5, <1>6, <1>7, <1>8

\* Every step keeps the invariant.
LEMMA NextLayout == LayoutInv /\ [LayoutNext]_layoutVars => LayoutInv'
<1> SUFFICES ASSUME LayoutInv, [LayoutNext]_layoutVars PROVE LayoutInv'
  OBVIOUS
<1>1. /\ parts \in Seq(Piece) /\ title \in Nat /\ pane \in Panes /\ position \in Int
      /\ rendered \in BOOLEAN /\ viewDirty \in BOOLEAN /\ shown \in BOOLEAN
      /\ boxes \in SoundLayouts /\ distance = 0 /\ (title = 0 => boxY = top)
  BY DEF LayoutInv, LayoutTypes
<1>2. pane.distance = distance /\ pane.top = top /\ pane.boxY = boxY /\ top \in Int /\ boxY \in Int
  BY <1>1 DEF pane, Panes
<1>3. CASE Render
  <2>1. PICK q \in Panes :
          /\ Becomes(q) /\ q.distance = 0 /\ q.boxY - q.top = Offset
          /\ rendered' = TRUE /\ viewDirty' = TRUE /\ shown' = FALSE
          /\ UNCHANGED <<parts, boxes, title, position>>
    BY <1>3, Displaying
  <2>2. pane' = q /\ top' = q.top /\ boxY' = q.boxY /\ distance' = q.distance
    BY <2>1, Becoming
  <2>3. q.top \in Int /\ q.boxY \in Int
    BY <1>1, PaneFields
  <2>4. title = 0 => boxY' = top'
    BY <2>1, <2>2, <2>3 DEF Offset
  <2> QED BY <1>1, <2>1, <2>2, <2>4 DEF LayoutInv, LayoutTypes
<1>4. CASE ImageArrives
  <2>1. PICK i \in DOMAIN parts, size \in Images :
          /\ parts' = [parts EXCEPT ![i] = [@ EXCEPT !.w = size.w, !.h = size.h, !.image = FALSE]]
          /\ boxes' = DoLayout(parts', boxes)
    BY <1>4 DEF ImageArrives
  <2>2. size.w \in Nat /\ size.h \in Nat /\ parts[i] \in Piece
    BY <1>1, LayoutAssumption
  <2>3. [parts[i] EXCEPT !.w = size.w, !.h = size.h, !.image = FALSE] \in Piece
    BY <2>2 DEF Piece
  <2>4. parts' \in Seq(Piece)
    BY <1>1, <2>1, <2>3
  <2>5. boxes' \in SoundLayouts
    BY <2>1, <2>4, DoLayoutIsSound
  <2>6. PICK q \in {Arrived(pane), Arrived(SetSize(pane))} : Becomes(q)
    BY <1>4 DEF ImageArrives
  <2> DEFINE s == SetSize(pane)
  <2>7. s \in Panes /\ s.distance = 0
    BY <1>1, <1>2, Setting
  <2> HIDE DEF s
  <2>8. \A r \in Panes : /\ Arrived(r) \in Panes /\ Arrived(r).distance = r.distance
                         /\ (title = 0 => Arrived(r).boxY = Arrived(r).top)
    BY <1>1, ArrivedFields
  <2>9. q = Arrived(pane) \/ q = Arrived(s)
    BY <2>6 DEF s
  <2>10. q \in Panes /\ q.distance = 0 /\ (title = 0 => q.boxY = q.top)
    BY <1>1, <1>2, <2>7, <2>8, <2>9
  <2>11. pane' = q /\ top' = q.top /\ boxY' = q.boxY /\ distance' = q.distance
    BY <2>6, <2>10, Becoming
  <2>12. UNCHANGED <<title, rendered, viewDirty, position>> /\ shown' = FALSE
    BY <1>4 DEF ImageArrives
  <2> QED BY <1>1, <2>4, <2>5, <2>10, <2>11, <2>12 DEF LayoutInv, LayoutTypes
<1>5. CASE ItemLoaded
  <2> DEFINE q == SetSize(pane)
  <2>1. q \in Panes /\ q.distance = 0 /\ (title = 0 => q.boxY = q.top)
    BY <1>1, <1>2, Setting
  <2>2. Becomes(q)
    BY <1>5 DEF ItemLoaded
  <2> HIDE DEF q
  <2>3. pane' = q /\ top' = q.top /\ boxY' = q.boxY /\ distance' = q.distance
    BY <2>1, <2>2, Becoming
  <2>4. UNCHANGED <<parts, boxes, title, rendered, viewDirty, position>>
    BY <1>5 DEF ItemLoaded, Page
  <2>5. shown' \in BOOLEAN
    BY <1>5, <1>1 DEF ItemLoaded
  <2> QED BY <1>1, <2>1, <2>3, <2>4, <2>5 DEF LayoutInv, LayoutTypes
<1>6. CASE Progress
  <2> DEFINE q == [pane EXCEPT !.dirty = TRUE, !.distance = 0]
             r == [pane EXCEPT !.dirty = TRUE]
  <2>1. r \in Panes /\ r.top = top /\ r.boxY = boxY
    BY <1>1, <1>2 DEF Panes
  <2>2. q = [r EXCEPT !.distance = 0]
    OBVIOUS
  <2>3. Becomes(q)
    BY <1>6 DEF Progress
  <2> HIDE DEF q, r
  <2>4. q \in Panes
    BY <2>1, <2>2 DEF Panes
  <2>5. q.distance = 0 /\ q.top = top /\ q.boxY = boxY
    BY <2>1, <2>2 DEF Panes
  <2>6. pane' = q /\ top' = q.top /\ boxY' = q.boxY /\ distance' = q.distance
    BY <2>3, <2>4, Becoming
  <2>7. UNCHANGED <<parts, boxes, title, rendered, viewDirty, position, shown>>
    BY <1>6 DEF Progress, Page
  <2> QED BY <1>1, <2>4, <2>5, <2>6, <2>7 DEF LayoutInv, LayoutTypes
<1>7. CASE ViewTick
  <2>1. PICK p \in KeyScrolls(pane) \cup Touches(pane), touched \in BOOLEAN :
          Paints(p) /\ position' = Kept(p, touched)
    BY <1>7 DEF ViewTick
  <2>2. Fine(pane, p)
    BY <1>1, <1>2, <2>1, FineKeys, FineTouches
  <2>3. /\ pane' \in Panes /\ distance' = 0 /\ boxY' - top' = boxY - top
        /\ shown' \in BOOLEAN /\ viewDirty' \in BOOLEAN /\ boxY' = p.boxY /\ top' = p.top
    BY <2>1, <2>2, Painted
  <2>4. p \in Panes
    BY <2>2 DEF Fine
  <2>5. CurrentPosition(p) \in Int
    BY <1>1, <2>4, Current
  <2>6. position' \in Int
    BY <1>1, <2>1, <2>5 DEF Kept
  <2>7. p.boxY \in Int /\ p.top \in Int
    BY <1>1, <2>4, PaneFields
  <2>8. title = 0 => boxY' = top'
    BY <1>1, <1>2, <2>3, <2>7
  <2>9. UNCHANGED <<parts, boxes, title, rendered>>
    BY <1>7 DEF ViewTick, Page
  <2> QED BY <1>1, <2>3, <2>6, <2>8, <2>9 DEF LayoutInv, LayoutTypes
<1>8. CASE UNCHANGED layoutVars
  BY <1>8 DEF layoutVars, LayoutInv, LayoutTypes, pane
<1> QED BY <1>3, <1>4, <1>5, <1>6, <1>7, <1>8 DEF LayoutNext

\* The invariant holds in every state.
LEMMA LayoutInvariant == LayoutSpec => []LayoutInv
<1> QED BY InitLayout, NextLayout, PTL DEF LayoutSpec

\* However images change their sizes, what comes later on a page is to the right of
\* or below what comes before it (BoxLayout::addToLayout, doLayout).
THEOREM RowsStayInOrder == LayoutSpec => []InReadingOrder
<1>1. LayoutInv => InReadingOrder
  BY DEF LayoutInv, SoundLayouts, Ordered, InReadingOrder
<1> QED BY <1>1, LayoutInvariant, PTL

\* A frame in which the page is scrolled once leaves on the screen what painting all
\* of it would (ScrollPane::paint, View::tick).
THEOREM ScrollingPaintsAll == LayoutSpec => ScreenShowsPage
<1>1. LayoutInv /\ [LayoutNext]_layoutVars => [shown /\ ~shown' => ~ViewTick]_layoutVars
  <2> SUFFICES ASSUME LayoutInv, ViewTick PROVE shown => shown'
    OBVIOUS
  <2>1. PICK p : p \in KeyScrolls(pane) \cup Touches(pane) /\ Paints(p)
    BY DEF ViewTick
  <2>2. pane \in Panes /\ pane.distance = 0 /\ boxes \in SoundLayouts /\ title \in Nat
    BY DEF LayoutInv, LayoutTypes, pane
  <2>3. Fine(pane, p)
    BY <2>1, <2>2, FineKeys, FineTouches
  <2> QED BY <2>1, <2>3, Painted
<1> QED BY <1>1, LayoutInvariant, PTL DEF LayoutSpec, ScreenShowsPage

\* Inside is about the pane.
LEMMA InsideIsPane == Inside <=> InsidePane(pane)
BY DEF Inside, InsidePane, pane

\* Of a long page, whose position is the one of where it is.
LEMMA FoundAgain ==
  ASSUME LayoutInv, Inside, Render
  PROVE  /\ Inside'
         /\ position = CurrentPosition(pane) => top' - top \in 0 .. total \div Whole + 1
<1>1. /\ pane \in Panes /\ distance = 0 /\ position \in Int /\ (title = 0 => boxY = top)
      /\ boxes \in SoundLayouts /\ title \in Nat
  BY DEF LayoutInv, LayoutTypes
<1>2. top \in Int /\ boxY \in Int /\ total \in Int /\ value \in Int /\ pane.distance = 0
  BY <1>1 DEF pane, Panes
<1>3. /\ Screen \in Nat /\ VisibleRange \in Nat /\ VisibleRange <= Screen /\ Whole \in Nat \ {0}
      /\ Padding \in Nat
  BY LayoutAssumption DEF VisibleRange
<1>4. Height(boxes) \in Nat /\ Floor(pane) = boxY + Height(boxes)
  BY <1>1, HeightIsLimit DEF SoundLayouts, Floor, pane
<1>5. Offset \in Nat /\ boxY - top = Offset
  BY <1>1, <1>2, <1>3 DEF Inside, Offset
<1>6. PICK v \in Nat : v = value /\ v = Screen - top
  BY <1>2, <1>3 DEF Inside
<1>7. total \in Nat /\ total > Screen /\ total = Offset + Height(boxes) /\ total + top >= 2 * Screen
  BY <1>2, <1>3, <1>4, <1>5 DEF Inside
<1>8. PICK q \in Panes, at \in Int :
          /\ Becomes(q) /\ q = PlaceAt([pane EXCEPT !.top = 0, !.boxY = 0], at)
          /\ (position # -1 => at = position)
          /\ UNCHANGED <<parts, boxes, title, position>>
  BY Displaying
<1> DEFINE p == [pane EXCEPT !.top = 0, !.boxY = 0]
<1>9. p \in Panes /\ p.top = 0 /\ p.boxY = 0 /\ p.distance = 0
  <2> DEFINE r == [pane EXCEPT !.top = 0]
  <2>1. r \in Panes /\ r.top = 0 /\ r.distance = 0
    BY <1>1, <1>2 DEF Panes
  <2>2. p = [r EXCEPT !.boxY = 0]
    OBVIOUS
  <2> HIDE DEF r, p
  <2>3. p \in Panes
    BY <2>1, <2>2 DEF Panes
  <2>4. p.top = 0 /\ p.boxY = 0 /\ p.distance = 0
    BY <2>1, <2>2 DEF Panes
  <2> QED BY <2>3, <2>4
<1>10. q = PlaceAt(p, at)
  BY <1>8
<1> HIDE DEF p
<1>11. PICK y : y = ((total - VisibleRange) * Larger(at, 0)) \div Whole
  OBVIOUS
<1>12. /\ InsidePane(q) /\ y \in Nat
       /\ (total - y >= Screen => q.top = Screen - y)
  BY <1>1, <1>7, <1>9, <1>10, <1>11, RenderedInside
<1>13. /\ pane' = q /\ top' = q.top /\ boxY' = q.boxY /\ total' = q.total /\ value' = q.value
  BY <1>8, Becoming
<1>14. Inside'
  BY <1>8, <1>12, <1>13 DEF Inside, InsidePane, Floor
<1>15. ASSUME position = CurrentPosition(pane)
       PROVE  top' - top \in 0 .. total \div Whole + 1
  <2>1. PICK r \in Nat \ {0} : r = total - VisibleRange
    BY <1>3, <1>7
  <2>2. position = (Whole * v) \div r
    <3>1. pane.total = total /\ pane.value = v /\ total > VisibleRange
      BY <1>3, <1>6, <1>7 DEF pane
    <3>2. CurrentPosition(pane) = (Whole * v) \div r
      BY <2>1, <3>1 DEF CurrentPosition
    <3> QED BY <1>15, <3>2
  <2>3. position \in Nat
    <3>1. Whole * v \in Nat
      BY <1>3
    <3> QED BY <2>1, <2>2, <3>1, DivisionNat
  <2>4. at = position /\ Larger(at, 0) = position
    BY <1>8, <2>3 DEF Larger
  <2>5. y = (r * ((Whole * v) \div r)) \div Whole
    BY <1>11, <2>1, <2>2, <2>4
  <2>6. y <= v /\ v - y <= r \div Whole + 1
    BY <1>3, <2>5, Rounding
  <2>7. total - y >= Screen
    BY <1>2, <1>3, <1>6, <1>7, <1>12, <2>6
  <2>8. top' - top = v - y
    BY <1>2, <1>3, <1>6, <1>12, <1>13, <2>7
  <2>9. r \div Whole \in Int /\ total \div Whole \in Int /\ r \div Whole <= total \div Whole
    <3>1. PICK a \in Int : a = r \div Whole /\ Whole * a <= r
      <4>1. r \in Int /\ Whole \in Nat \ {0}
        BY <1>3
      <4>2. r \div Whole \in Int /\ Whole * (r \div Whole) <= r
        BY <4>1, Division
      <4> QED BY <4>2
    <3>2. PICK b \in Int : b = total \div Whole /\ total < Whole * b + Whole
      BY <1>2, <1>3, Division
    <3>3. a <= b
      <4> SUFFICES ASSUME a >= b + 1 PROVE FALSE
        BY <3>1, <3>2
      <4>1. Whole * a >= Whole * (b + 1)
        BY <1>3
      <4>2. Whole * (b + 1) = Whole * b + Whole
        BY <1>3
      <4>3. r <= total
        BY <1>3, <1>2, <2>1
      <4> QED BY <1>2, <1>3, <2>1, <3>1, <3>2, <4>1, <4>2, <4>3
    <3> QED BY <3>1, <3>2, <3>3
  <2> QED BY <1>6, <1>12, <2>6, <2>8, <2>9
<1> QED BY <1>14, <1>15

\* Nothing but an image that changes its size takes a long page off the screen, and
\* the place that was kept is found again when it is rendered again, but for what
\* rounding loses (ScrollPane::scrollToPercent and currentPosition, View::tick).
THEOREM PlaceIsFoundAgain == LayoutSpec => PlaceIsKept
<1> DEFINE Keeps == Inside /\ UNCHANGED parts =>
                      /\ Inside'
                      /\ (position = CurrentPosition(pane) /\ Render =>
                            top' - top \in 0 .. total \div Whole + 1)
<1>1. LayoutInv /\ [LayoutNext]_layoutVars => [Keeps]_layoutVars
  <2> SUFFICES ASSUME LayoutInv, LayoutNext, Inside, UNCHANGED parts
               PROVE  /\ Inside'
                      /\ Render => (position = CurrentPosition(pane) =>
                                      top' - top \in 0 .. total \div Whole + 1)
    OBVIOUS
  <2>1. /\ parts \in Seq(Piece) /\ title \in Nat /\ pane \in Panes /\ pane.distance = 0
        /\ boxes \in SoundLayouts
    BY DEF LayoutInv, LayoutTypes, pane
  <2>2. InsidePane(pane) /\ top \in Int /\ boxY \in Int
    BY <2>1, InsideIsPane DEF Panes, pane
  <2>3. ASSUME NEW q, InsidePane(q), UNCHANGED <<boxes, title>>,
               boxY' = q.boxY, top' = q.top, total' = q.total, value' = q.value
        PROVE  Inside'
    BY <2>3 DEF Inside, InsidePane, Floor, pane
  <2>4. CASE Render
    BY <2>4, FoundAgain
  <2>5. CASE ImageArrives
    <3>1. PICK i \in DOMAIN parts, size \in Images :
            /\ parts[i].image
            /\ parts' = [parts EXCEPT ![i] = [@ EXCEPT !.w = size.w, !.h = size.h, !.image = FALSE]]
      BY <2>5 DEF ImageArrives
    <3>2. parts[i] \in Piece
      BY <2>1
    <3>3. parts'[i].image = FALSE
      BY <3>1, <3>2 DEF Piece
    <3> QED BY <3>1, <3>3
  <2>6. CASE ItemLoaded
    <3> DEFINE q == SetSize(pane)
    <3>1. Becomes(q) /\ UNCHANGED <<boxes, title>>
      BY <2>6 DEF ItemLoaded, Page
    <3>2. /\ q \in Panes /\ q.top = pane.top /\ q.value = Screen - pane.top
          /\ q.boxY = (IF title = 0 THEN pane.boxY ELSE pane.top + title + Padding)
          /\ q.total = Floor(q) - pane.top
      BY <2>1, Setting
    <3> HIDE DEF q
    <3>3. q.boxY = pane.boxY
      BY <2>2, <3>2 DEF InsidePane
    <3>4. Floor(q) = Floor(pane)
      BY <3>3 DEF Floor
    <3>5. InsidePane(q)
      BY <2>2, <3>2, <3>3, <3>4 DEF InsidePane
    <3>6. boxY' = q.boxY /\ top' = q.top /\ total' = q.total /\ value' = q.value
      BY <3>1, <3>2, Becoming
    <3>7. Inside'
      BY <2>3, <3>1, <3>5, <3>6
    <3> QED BY <2>6, <3>6, <3>7, <2>4
  <2>7. CASE Progress
    <3>1. UNCHANGED <<top, boxY, total, value, boxes, title>>
      BY <2>7 DEF Progress, Becomes, pane, Page
    <3>2. Inside'
      BY <3>1 DEF Inside, Floor, pane
    <3> QED BY <3>2, <2>4
  <2>8. CASE ViewTick
    <3>1. PICK p \in KeyScrolls(pane) \cup Touches(pane) : Paints(p)
      BY <2>8 DEF ViewTick
    <3>2. Fine(pane, p)
      BY <2>1, <3>1, FineKeys, FineTouches
    <3>3. boxY' = p.boxY /\ top' = p.top /\ total' = p.total /\ value' = p.value
      BY <3>1, <3>2, Painted
    <3>4. InsidePane(p)
      BY <2>2, <3>2 DEF Fine
    <3>5. UNCHANGED <<boxes, title>>
      BY <2>8 DEF ViewTick, Page
    <3>6. Inside'
      BY <2>3, <3>3, <3>4, <3>5
    <3> QED BY <3>6, <2>4
  <2> QED BY <2>4, <2>5, <2>6, <2>7, <2>8 DEF LayoutNext
<1> QED BY <1>1, LayoutInvariant, PTL DEF LayoutSpec, PlaceIsKept
=============================================================================
