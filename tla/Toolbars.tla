------------------------------ MODULE Toolbars ------------------------------
(***************************************************************************)
(* The icons: three toolbars of hardware sprites, of which View shows one. *)
(* A sprite has a copy in memory that is changed at will, and an entry in  *)
(* the OAM of the console that is seen; Sprite::update copies the one to   *)
(* the other.  Only BrowseToolbar does so in every frame; the others when  *)
(* they are shown, hidden or moved.                                        *)
(*                                                                         *)
(* A frame is View::tick: at most one touch, then the keys in the order in *)
(* which browse looks at them, then what is done without being asked for.  *)
(* A handler that loads a page starts frames of its own inside, and what   *)
(* is left of its own frame is like one more; other keys that were down in *)
(* the same frame are left out.                                            *)
(***************************************************************************)
EXTENDS Naturals, Sequences

CONSTANTS Documents,    \* what the toolbars show of Document: [loading, previous, next]
          WifiIcons,    \* what they show of the connection
          MaxMoves, MaxChanges      \* bounds: moves of a toolbar, changes of the document

VARIABLES toolbars,     \* of each: visible, position, icons, oam; current (m_toolbar), hidden (m_hidden), unseen
          state,        \* BROWSE, which stands for BOOKMARK too, or ENTERING
          keyboard,     \* m_keyboard.visible()
          doc, wifi,
          turn,         \* the last handler of this frame: 1 for the stylus, then keys
          touch,        \* the stylus was used in this frame
          still,        \* frames in which nothing happened, up to two
          moves, changes

barVars == <<toolbars, state, keyboard, doc, wifi, turn, touch, still, moves, changes>>

Icons == [browse   |-> <<"HIDE", "BACK", "FORWARD", "STOP_REFRESH", "BOOKMARK", "GO_URL", "PREFS", "SAVE_AS", "CONNECT_STATUS">>,
          bookmark |-> <<"BACK", "ADD_BOOKMARK">>,
          prefs    |-> <<"BACK", "COOKIE", "ADD_COOKIE", "SEARCH", "ADD_SEARCH">>]
Bars == DOMAIN Icons
Hide == 1
Spinner == 9

----------------------------------------------------------------------------
(* Sprite: bit 3 of the rotation is also the horizontal flip               *)

\* No picture yet.
NoTile == "NONE"
Sprite == [x |-> 0, y |-> 0, double |-> FALSE, rotateScale |-> FALSE, rotate |-> 0, tile |-> NoTile]

Enabled(p) == ~p.double \/ p.rotateScale
Hflip(p) == p.rotate >= 8

SetHflip(p, b) == [p EXCEPT !.rotate = (@ % 8) + IF b THEN 8 ELSE 0]
SetEnabledKeepsRotation(p, e) == [p EXCEPT !.double = ~e]
SetEnabled(p, e) == [p EXCEPT !.double = ~e, !.rotateScale = FALSE]

WithIcons(s, b, icons) == [s EXCEPT !.icons = [@ EXCEPT ![b] = icons]]
Update(s, b) == [s EXCEPT !.oam = [@ EXCEPT ![b] = s.icons[b]]]

----------------------------------------------------------------------------
(* Toolbar and its three kinds                                             *)

X(position, i) ==
  CASE position = "LEFT" -> 10 [] position = "RIGHT" -> 256 - 26 [] OTHER -> 18 + (i - 1) * 20
Y(position, i) ==
  CASE position = "BOTTOM" -> 192 - 17 [] position = "TOP" -> 5 [] OTHER -> 5 + (i - 1) * 20

NextPosition == [TOP |-> "RIGHT", RIGHT |-> "BOTTOM", BOTTOM |-> "LEFT", LEFT |-> "TOP"]

EnableAll(s, b, e) == WithIcons(s, b, [i \in DOMAIN Icons[b] |-> SetEnabled(s.icons[b][i], e)])

\* The first icon is left when the others go; it is changed after the update.
Folded(p, s, h) == [SetHflip(SetEnabled(p, TRUE), h) EXCEPT !.x = IF h THEN 0 ELSE X(s.position.browse, Hide)]

SetHidden(s, h) ==
  LET t == Update(EnableAll(s, "browse", ~h), "browse")
  IN [WithIcons(t, "browse", [t.icons.browse EXCEPT ![Hide] = Folded(@, s, h)]) EXCEPT !.hidden = h]

ToolbarSetVisible(s, b, v) == Update(EnableAll([s EXCEPT !.visible = [@ EXCEPT ![b] = v]], b, v), b)

SetVisible(s, b, v) ==
  IF b # "browse" THEN ToolbarSetVisible(s, b, v)
  ELSE IF v THEN SetHidden([ToolbarSetVisible(s, b, v) EXCEPT !.unseen = FALSE], s.hidden)
  ELSE [ToolbarSetVisible(s, b, v) EXCEPT !.unseen = FALSE]

PutAt(p, position, i) == [p EXCEPT !.x = X(position, i), !.y = Y(position, i)]

ToolbarLayout(s, b) ==
  SetVisible(WithIcons(s, b, [i \in DOMAIN Icons[b] |-> PutAt(s.icons[b][i], s.position[b], i)]), b, s.visible[b])

\* BrowseToolbar::layout ends with setHidden, whether it is visible or not.
Layout(s, b) ==
  IF b = "browse" THEN [SetHidden(ToolbarLayout(s, b), s.hidden) EXCEPT !.unseen = ~s.visible[b]]
  ELSE ToolbarLayout(s, b)

CyclePosition(s) ==
  Layout([s EXCEPT !.position = [@ EXCEPT ![s.current] = NextPosition[s.position[s.current]]]], s.current)

\* The picture of an icon, as updateIcons chooses it.
Picture(b, i, d, w) ==
  CASE b # "browse" -> Icons[b][i]
    [] b = "browse" /\ i = Hide -> "HIDE_LEFT"
    [] b = "browse" /\ i = 2 -> IF d.previous THEN "BACK" ELSE "BACK_DISABLE"
    [] b = "browse" /\ i = 3 -> IF d.next THEN "FORWARD" ELSE "FORWARD_DISABLE"
    [] b = "browse" /\ i = 4 -> IF d.loading THEN "STOP" ELSE "REFRESH"
    [] b = "browse" /\ i = Spinner -> IF d.loading THEN "SPINNER" ELSE w
    [] OTHER -> Icons[b][i]

UpdateIcons(s, b, d, w) ==
  WithIcons(s, b, [i \in DOMAIN Icons[b] |->
    LET p == [s.icons[b][i] EXCEPT !.tile = Picture(b, i, d, w)]
    IN IF b = "browse" /\ i = Hide THEN SetHflip(p, s.hidden) ELSE p])

Spun(p, loading) ==
  IF loading THEN [p EXCEPT !.tile = "SPINNER", !.double = FALSE, !.rotateScale = TRUE, !.rotate = 1]
  ELSE [p EXCEPT !.rotateScale = FALSE]

BarTick(s, d) ==
  IF s.current = "browse" /\ s.visible.browse
  THEN Update(WithIcons(s, "browse", [s.icons.browse EXCEPT ![Spinner] = Spun(@, d.loading)]), "browse")
  ELSE s

----------------------------------------------------------------------------
(* View                                                                    *)

BarsSetToolbar(s, b) == SetVisible([SetVisible(s, s.current, FALSE) EXCEPT !.current = b], b, TRUE)

Notified(s, d, w) ==
  UpdateIcons(UpdateIcons(UpdateIcons(s, "prefs", d, w), "bookmark", d, w), "browse", d, w)

\* The first page has been announced to the toolbars.
BarsInit ==
  /\ doc \in Documents /\ wifi \in WifiIcons
  /\ \E s \in {[visible |-> [b \in Bars |-> FALSE], position |-> [b \in Bars |-> "BOTTOM"],
                icons |-> [b \in Bars |-> [i \in DOMAIN Icons[b] |-> Sprite]],
                oam |-> [b \in Bars |-> [i \in DOMAIN Icons[b] |-> Sprite]],
                current |-> "browse", hidden |-> FALSE, unseen |-> FALSE]} :
       toolbars = Notified(SetVisible(Layout(ToolbarLayout(ToolbarLayout(s, "prefs"), "bookmark"), "browse"),
                                      "browse", TRUE), doc, wifi)
  /\ state = "BROWSE" /\ keyboard = FALSE /\ turn = 0 /\ touch = FALSE /\ still = 0 /\ moves = 0 /\ changes = 0

CurrentIcons == toolbars.icons[toolbars.current]

\* Something is done in this frame; a load starts a new one.
Done(rank, touched) == turn' = rank /\ touch' = (touch \/ touched) /\ still' = 0
StartsFrame == turn' = 0 /\ touch' = touch /\ still' = 0

AsksForUrl ==
  /\ keyboard' = TRUE /\ state' = "ENTERING" /\ toolbars' = SetVisible(toolbars, toolbars.current, FALSE)

\* Toolbar::stylusUp and handlePress; the history and the page are Interface's.
Press(i) ==
  /\ turn = 0 /\ toolbars.visible[toolbars.current] /\ Enabled(CurrentIcons[i])
  /\ \/ /\ toolbars.current = "browse" /\ i = Hide
        /\ toolbars' = SetHidden(toolbars, ~toolbars.hidden) /\ Done(1, TRUE)
        /\ UNCHANGED <<state, keyboard, wifi>>
     \/ /\ toolbars.current = "browse" /\ Icons.browse[i] \in {"GO_URL", "SAVE_AS"}
        /\ AsksForUrl /\ Done(1, TRUE) /\ UNCHANGED wifi
     \/ /\ toolbars.current = "browse" /\ Icons.browse[i] \in {"BOOKMARK", "PREFS"}
        /\ toolbars' = BarsSetToolbar(toolbars, IF Icons.browse[i] = "PREFS" THEN "prefs" ELSE "bookmark")
        /\ StartsFrame /\ UNCHANGED <<state, keyboard, wifi>>
     \/ /\ toolbars.current = "browse" /\ i = Spinner
        /\ wifi' = "NOT_CONNECTED" /\ Done(1, TRUE) /\ UNCHANGED <<toolbars, state, keyboard>>
     \/ /\ toolbars.current # "browse" /\ i = 1
        /\ toolbars' = BarsSetToolbar(toolbars, "browse") /\ Done(1, TRUE) /\ state' = "BROWSE"
        /\ UNCHANGED <<keyboard, wifi>>
  /\ UNCHANGED <<doc, moves, changes>>

\* A text field of the page, in which case the toolbar is not told; a key of the keyboard.
FieldTouched ==
  /\ turn = 0 /\ state = "BROWSE" /\ ~keyboard
  /\ keyboard' = TRUE /\ Done(1, TRUE)
  /\ UNCHANGED <<toolbars, state, doc, wifi, moves, changes>>

KeyboardCloses ==
  /\ turn = 0 /\ keyboard
  /\ keyboard' = FALSE /\ Done(1, TRUE)
  /\ UNCHANGED <<toolbars, state, doc, wifi, moves, changes>>

\* Keys; that the keyboard is not visible is seen to once, before the first.
Key(rank) == state = "BROWSE" /\ turn < rank /\ (turn <= 1 => ~keyboard)

KeyA ==
  /\ Key(2) /\ AsksForUrl /\ Done(2, FALSE)
  /\ UNCHANGED <<doc, wifi, moves, changes>>

\* EnterUrl of the same frame has already left BROWSE.
KeySelect ==
  /\ Key(3) \/ turn = 2
  /\ moves < MaxMoves /\ moves' = moves + 1
  /\ toolbars' = CyclePosition(toolbars) /\ Done(3, FALSE)
  /\ UNCHANGED <<state, keyboard, doc, wifi, changes>>

KeyY ==
  /\ Key(4) /\ toolbars' = BarsSetToolbar(toolbars, "bookmark") /\ StartsFrame
  /\ UNCHANGED <<state, keyboard, doc, wifi, moves, changes>>
KeyX ==
  /\ Key(5) /\ toolbars' = BarsSetToolbar(toolbars, "prefs") /\ StartsFrame
  /\ UNCHANGED <<state, keyboard, doc, wifi, moves, changes>>

\* A link among the bookmarks or a form of the settings: endBookmark.
BookmarksEnd ==
  /\ turn = 0 /\ ~touch /\ toolbars.current # "browse"
  /\ toolbars' = BarsSetToolbar(toolbars, "browse") /\ state' = "BROWSE" /\ StartsFrame
  /\ UNCHANGED <<keyboard, doc, wifi, moves, changes>>

\* View::notify of a download, which asks for a name.
AskName ==
  /\ turn = 0 /\ ~touch /\ doc.loading /\ state = "BROWSE" /\ ~keyboard
  /\ AsksForUrl /\ StartsFrame
  /\ UNCHANGED <<doc, wifi, moves, changes>>

\* What the icons show changes; the toolbars are told after View, which may tick.
Change ==
  /\ turn = 0 /\ changes < MaxChanges /\ changes' = changes + 1
  /\ doc' \in Documents /\ wifi' \in WifiIcons /\ still' = 0
  /\ UNCHANGED <<toolbars, state, keyboard, turn, touch, moves>>

Notify ==
  /\ turn = 0 /\ toolbars' = Notified(toolbars, doc, wifi)
  /\ UNCHANGED <<state, keyboard, doc, wifi, turn, touch, still, moves, changes>>

\* The rest of View::tick; on a PC, Return closes the keyboard in it.
BarsFrame(touched, return) ==
  /\ touch => touched
  /\ return => keyboard
  /\ keyboard' = (keyboard /\ ~return)
  /\ \E s \in {IF state = "BROWSE" /\ touched THEN SetVisible(toolbars, toolbars.current, ~keyboard) ELSE toolbars} :
     \E t \in {UpdateIcons(BarTick(s, doc), toolbars.current, doc, wifi)} :
     \E ends \in {state = "ENTERING" /\ ~keyboard'} :
       /\ toolbars' = IF ends THEN SetVisible(t, t.current, TRUE) ELSE t
       /\ state' = IF ends THEN "BROWSE" ELSE state
       /\ still' = IF touched \/ return \/ ends \/ turn # 0 THEN 0 ELSE IF still = 2 THEN 2 ELSE still + 1
  /\ turn' = 0 /\ touch' = FALSE
  /\ UNCHANGED <<doc, wifi, moves, changes>>

BarsNext ==
  \/ \E i \in DOMAIN CurrentIcons : Press(i)
  \/ FieldTouched \/ KeyboardCloses \/ KeyA \/ KeySelect \/ KeyY \/ KeyX
  \/ BookmarksEnd \/ AskName \/ Change \/ Notify
  \/ \E touched, return \in BOOLEAN : BarsFrame(touched, return)

BarsSpec == BarsInit /\ [][BarsNext]_barVars

----------------------------------------------------------------------------
(* Properties                                                              *)

Place(b, i) ==
  IF b = "browse" /\ i = Hide /\ toolbars.hidden THEN <<0, Y(toolbars.position[b], i)>>
  ELSE <<X(toolbars.position[b], i), Y(toolbars.position[b], i)>>

IsShown(b, i) == toolbars.visible[b] /\ (b = "browse" /\ toolbars.hidden => i = Hide)

\* When nothing has happened for two frames, what is seen is what the program has to
\* show: of the toolbar that is visible each icon, or when it is hidden the first, at
\* its place, with the picture that the document and the connection call for; and of
\* the others nothing. The spinner may be seen although its toolbar is hidden, and a
\* toolbar that was moved while it was not visible is (Toolbar.cpp, BrowseToolbar.cpp,
\* View::tick).
IconsShowState ==
  still = 2 => \A b \in Bars : \A i \in DOMAIN Icons[b] :
    LET p == toolbars.oam[b][i]
    IN \/ b = "browse" /\ (toolbars.unseen \/ (i = Spinner /\ toolbars.hidden /\ toolbars.visible[b]))
       \/ ~IsShown(b, i) /\ ~Enabled(p)
       \/ /\ IsShown(b, i) /\ Enabled(p) /\ b = toolbars.current
          /\ <<p.x, p.y>> = Place(b, i)
          /\ p.tile = Picture(b, i, doc, wifi)
          /\ Hflip(p) = (b = "browse" /\ i = Hide /\ toolbars.hidden)
=============================================================================
